---- MODULE Spec2Model ----
(***************************************************************************)
(* A model of the diagnostic engine of letsdebug: the Check orchestrator   *)
(* (letsdebug.go), the per-scan lookup cache (context.go), the asynchronous *)
(* checker block (asyncCheckerBlock.Check) and the registered checkers.     *)
(*                                                                         *)
(* The specifications of the module:                                       *)
(*   Spec          one call of Check over a registry of checkers           *)
(*   SpecLookup    goroutines calling scanContext.Lookup on one context    *)
(*   SpecAsync     one call of asyncCheckerBlock.Check with its goroutines *)
(*   SpecAsyncFair SpecAsync under a scheduler that runs what can run      *)
(*   SpecScans     several calls of Check, each with its scan context      *)
(*   SpecCAA       caaChecker.Check over the CAA answers of the resolver   *)
(*   SpecHTTP      one call of checkHTTP, request by request               *)
(*   SpecNS        nameServerOutOfSyncChecker.Check comparing the answers  *)
(*   SpecResolve   one call of lookup(name, rrType)                        *)
(*   SpecSort      problems.Less on a list of Problems                     *)
(*   SpecNormalize Check and the domain it hands to its checkers           *)
(*   SpecFanout    nameServerOutOfSyncChecker.Check and its goroutines     *)
(*   SpecWeb       the tests table under the workers and the vacuum loop   *)
(***************************************************************************)
EXTENDS Integers, Sequences, FiniteSets, TLC

VARIABLES
    \* ---- Check (letsdebug.go) ----
    checkers,       \* the registry: the ordered list of checkers
    domain,         \* the domain handed to the checkers (a sequence of labels)
    method,         \* the validation method
    dnsEnv,         \* what the resolver answers during this scan
    pc,             \* position of Check
    idx,            \* index of the checker the loop is at
    probs,          \* the named result probs
    retErr,         \* the named result retErr
    calls,          \* spy: how often checker i was invoked
    returned,       \* spy: what each invoked checker returned, in order
    rrs,            \* scanContext.rrs, the lookup cache
    queryLog,       \* every underlying resolver query lookup(name, rrType), in order
    httpLog,        \* every checkHTTP request (target address), in order
    crashed,        \* the process was terminated by an unrecovered panic
    \* ---- scanContext.Lookup callers (context.go) ----
    lpc,            \* position of each caller inside Lookup
    lkey,           \* the key each caller asks for
    lres,           \* the result a caller holds between resolving and storing
    lret,           \* what each caller's latest Lookup call returned
    lcalls,         \* how many Lookup calls each caller has completed
    lseen,          \* every (key, result) some Lookup call has returned
    lqueries,       \* how many resolver queries were issued per key
    \* ---- asyncCheckerBlock.Check ----
    block,          \* the sub-checkers of the block
    apc,            \* position of asyncCheckerBlock.Check
    wpc,            \* position of the goroutine that waits for the wait group
    spc,            \* position of each sub-checker goroutine
    sout,           \* what each sub-checker returned
    wg,             \* the wait group counter
    errChan,        \* buffered channel of errors
    resultsChan,    \* buffered channel of Problem lists
    aprobs,         \* the Problem list asyncCheckerBlock.Check returns
    aerr,           \* the error asyncCheckerBlock.Check returns
    \* ---- several calls of Check, each with its scan context ----
    heap,           \* the scanContext objects allocated so far, by address
    sctx,           \* the address each scan's ctx holds (0 before newScanContext)
    scanPc,         \* position of each scan
    nlook,          \* how many Lookup calls each scan has made
    writers,        \* spy: which scan stored which cache entry of which context
    hits,           \* spy: which scan was answered from which cache entry
    \* ---- one call of checkHTTP (http_util.go) ----
    hExpect,        \* scanCtx.httpExpectResponse
    hAddr,          \* the address parameter
    hpc,            \* position of checkHTTP
    hReq,           \* the request the client is about to send
    hVia,           \* how many requests the client has sent (len(via))
    hRes,           \* checkRes
    hRedirErr,      \* redirErr
    hDials,         \* spy: every connection dialed (host, address, port)
    hBody,          \* what reading the final response's body gave
    hProb,          \* the Problem checkHTTP returns
    hLoc,           \* spy: the URL of the redirect CheckRedirect was last called for
    \* ---- nameServerOutOfSyncChecker.Check, comparing the answers ----
    nameServers,    \* hostname -> Records (address -> TXT strings) after the fan-in
    nspc,           \* position of nameServerOutOfSyncChecker.Check
    nsProbs,        \* the Problems it returns
    \* ---- one call of lookup(name, rrType) (dns_util.go) ----
    ubAnswer,       \* what ub.Resolve returns for the query, whenever it returns
    rpc,            \* position of lookup / lookupRaw / lookupWithTimeout
    rgo,            \* position of the goroutine that calls ub.Resolve
    rChan,          \* resultChan, buffered with capacity 1
    rTimed,         \* what lookupWithTimeout returned
    rRaw,           \* what lookupRaw returned
    rOut,           \* what lookup returned
    \* ---- problems.Less on one list of Problems (web) ----
    sortProbs,      \* probs, the list being sorted
    lessAsked,      \* spy: the pairs <<i, j>> Less was called with
    lessTrue,       \* spy: the pairs Less answered true for
    \* ---- Check and the domain it hands to the checkers (letsdebug.go) ----
    rawDomain,      \* the domain argument as the caller gave it (a string of characters)
    nDomain,        \* the variable domain of Check
    nNormalized,    \* spy: how often normalizeFqdn was applied
    nSeen,          \* spy: the domain argument each invoked checker received, in order
    npc,            \* position of Check
    \* ---- nameServerOutOfSyncChecker.Check, its two fan-out stages ----
    fNS,            \* len(nameSeverRRs)
    fDual,          \* whether the nameservers have an AAAA address besides the A address
    fpc,            \* position of Check
    fwg,            \* the counter of wg
    fg,             \* position of each goroutine <<stage, i>> launched
    fw,             \* position of the goroutine of each stage that waits and closes
    fclosed,        \* whether chanNSIP (1) and chanNSRec (2) are closed
    fIPs,           \* the addresses gathered in nameServers
    fPanic,         \* the panic that ended the process, if any
    \* ---- the tests table, the workers and the vacuum loop (web) ----
    tStatus,        \* the status column of each test row
    tOld,           \* whether created_at of the row lies before the vacuum's interval
    notifyQ,        \* the notifications of tests_events not yet handed to a worker
    wkReq,          \* the request each worker holds
    wkPc            \* position of each worker

checkVars == <<checkers, domain, method, dnsEnv, pc, idx, probs, retErr,
               calls, returned, httpLog>>
ctxVars == <<rrs, queryLog>>
lookupVars == <<lpc, lkey, lres, lret, lcalls, lseen, lqueries>>
asyncVars == <<block, apc, wpc, spc, sout, wg, errChan, resultsChan, aprobs, aerr>>
scanVars == <<heap, sctx, scanPc, nlook, writers, hits>>
\* The state of the scenarios other than Check, Lookup callers and the async block
httpVars == <<hExpect, hAddr, hpc, hReq, hVia, hRes, hRedirErr, hDials, hBody, hProb, hLoc>>
nsVars == <<nameServers, nspc, nsProbs>>
resVars == <<ubAnswer, rpc, rgo, rChan, rTimed, rRaw, rOut>>
sortVars == <<sortProbs, lessAsked, lessTrue>>
normVars == <<rawDomain, nDomain, nNormalized, nSeen, npc>>
fanVars == <<fNS, fDual, fpc, fwg, fg, fw, fclosed, fIPs, fPanic>>
webVars == <<tStatus, tOld, notifyQ, wkReq, wkPc>>
laterVars == <<fanVars, webVars>>
extraVars == <<sortVars, normVars, laterVars>>
otherVars == <<scanVars, httpVars, nsVars, resVars, extraVars>>
vars == <<checkVars, ctxVars, lookupVars, asyncVars, crashed, otherVars>>

(***************************************************************************)
(* Bounds of the model                                                     *)
(***************************************************************************)
MaxCheckers == 3    \* longest registry of stub checkers
NumScans == 2       \* calls of Check, each with its own scan context
MaxScanLookups == 2 \* Lookup calls one scan makes
MaxSub == 3         \* most sub-checkers in an async block
NumCallers == 2     \* goroutines calling Lookup on one scan context
MaxLookups == 4     \* Lookup calls made on one scan context
MaxCAARecords == 2  \* longest CAA answer of the label under study

(***************************************************************************)
(* Problems and severities (problem.go)                                    *)
(***************************************************************************)
SeverityFatal == "Fatal"
SeverityError == "Error"
SeverityWarning == "Warning"
SeverityDebug == "Debug"

\* A Problem, reduced to the two fields the engine itself reads.
Problem(name, severity) == [Name |-> name, Severity |-> severity]

\* debugProblem(name, message, detail): a Problem of severity Debug
debugProblem(name) == Problem(name, SeverityDebug)

hasFatalProblemFirstOnly(ps) == Len(ps) > 0 /\ ps[1].Severity = SeverityFatal

hasFatalProblem(ps) == \E i \in 1..Len(ps) : ps[i].Severity = SeverityFatal

\* A test for the sentinel that never recognises it
IsZeroNever(p) == FALSE

IsZero(p) == p.Name = ""

(***************************************************************************)
(* Errors. nil is "nil"; a panic is not an error value but an outcome.     *)
(***************************************************************************)
nil == "nil"
errNotApplicable == "Checker not applicable for this domain and method"
errFailure == "failure"

\* What a checker's Check can do: return (probs, err) or panic with a value.
Return(ps, err) == [kind |-> "return", probs |-> ps, err |-> err]
Panic(value) == [kind |-> "panic", probs |-> <<>>, err |-> value]

(***************************************************************************)
(* The stub checkers of the test suite, and a spy checker that may return  *)
(* anything the checker interface allows.                                  *)
(***************************************************************************)
checkerFail == {Return(<<>>, errFailure)}
checkerSucceedEmpty == {Return(<<>>, nil)}
checkerSucceedWithProblem == {Return(<<Problem("Empty", "")>>, nil)}
checkerPanic == {Panic("hi")}

SpyProblems == {Problem("SpyFatal", SeverityFatal), Problem("SpyWarning", SeverityWarning)}
SpyLists == {<<>>} \cup {<<p>> : p \in SpyProblems}
                   \cup {<<Problem("SpyWarning", SeverityWarning), Problem("SpyFatal", SeverityFatal)>>}
checkerSpy == {Return(ps, e) : ps \in SpyLists, e \in {nil, errNotApplicable, errFailure}}
                  \cup {Panic("hi")}

StubKinds == {"checkerFail", "checkerSucceedEmpty", "checkerSucceedWithProblem",
              "checkerPanic", "checkerSpy"}

StubCheck(kind) ==
    CASE kind = "checkerFail" -> checkerFail
      [] kind = "checkerSucceedEmpty" -> checkerSucceedEmpty
      [] kind = "checkerSucceedWithProblem" -> checkerSucceedWithProblem
      [] kind = "checkerPanic" -> checkerPanic
      [] kind = "checkerSpy" -> checkerSpy

(***************************************************************************)
(* Validation methods and the registry (checker.go)                        *)
(***************************************************************************)
HTTP01 == "http-01"
DNS01 == "dns-01"
TLSSNI01 == "tls-sni-01"
TLSSNI02 == "tls-sni-02"

ValidMethods == {HTTP01, DNS01, TLSSNI01, TLSSNI02}

\* The methods a caller may pass: ValidationMethod is any string.
Methods == ValidMethods \cup {"bogus-01"}

\* A registry that puts the CAA check before the two show-stoppers
RegisteredCheckersCaaFirst ==
    <<"caaChecker", "tlssni0102DisabledChecker", "wildcardDns01OnlyChecker",
      "dnsAChecker", "httpAccessibilityChecker">>

\* checkers, as init() fills it.
RegisteredCheckers ==
    <<"tlssni0102DisabledChecker", "wildcardDns01OnlyChecker", "caaChecker",
      "dnsAChecker", "httpAccessibilityChecker">>

(***************************************************************************)
(* Names, resource records and the resolver                                *)
(***************************************************************************)
\* A domain name is its sequence of labels; "*.example.org" is <<"*","example","org">>.
Domains == {<<"example", "org">>, <<"sub", "example", "org">>, <<"*", "example", "org">>}

CAANames == {<<"sub", "example", "org">>, <<"example", "org">>, <<"org">>}

PublicV4 == [fam |-> 4, reserved |-> FALSE, addr |-> "93.184.216.34"]
ReservedV4 == [fam |-> 4, reserved |-> TRUE, addr |-> "10.0.0.1"]
OtherPublicV4 == [fam |-> 4, reserved |-> FALSE, addr |-> "93.184.216.35"]
PublicV6 == [fam |-> 6, reserved |-> FALSE, addr |-> "2606:2800:220:1::1"]
Addresses == {PublicV4, OtherPublicV4, ReservedV4, PublicV6}

RRA(ip) == [Type |-> "A", ip |-> ip]
RRAAAA(ip) == [Type |-> "AAAA", ip |-> ip]
RRCNAME == [Type |-> "CNAME"]
\* The value of a CAA record is its sequence of tokens.
RRCAA(flag, tag, value) == [Type |-> "CAA", Flag |-> flag, Tag |-> tag, Value |-> value]

lookupResult(records, err) == [RRs |-> records, Error |-> err]

ServFail == "SERVFAIL"

CAAAnswers ==
    { lookupResult(<<>>, nil),
      lookupResult(<<RRCAA(0, "issue", <<"letsencrypt.org">>)>>, nil),
      lookupResult(<<RRCAA(0, "issue", <<"othertrustca.com">>)>>, nil),
      lookupResult(<<>>, ServFail) }
AAnswers ==
    { lookupResult(<<>>, nil),
      lookupResult(<<RRCNAME, RRA(PublicV4)>>, nil),
      lookupResult(<<RRA(PublicV4), RRA(OtherPublicV4)>>, nil),
      lookupResult(<<RRA(ReservedV4)>>, nil),
      lookupResult(<<>>, ServFail) }
AAAAAnswers ==
    { lookupResult(<<>>, nil),
      lookupResult(<<RRAAAA(PublicV6)>>, nil),
      lookupResult(<<>>, ServFail) }

\* What the resolver may answer for the TXT record of the challenge name
TXTResults ==
    { lookupResult(<<>>, nil),
      lookupResult(<<[Type |-> "TXT"]>>, nil),
      lookupResult(<<>>, ServFail) }

\* What the resolver would answer during one scan.
DnsEnvs == [caa : [CAANames -> CAAAnswers], a : AAnswers, aaaa : AAAAAnswers]

\* The resolver adapter, seen from the cache: the answer for (name, rrType).
lookup(env, name, rrType) ==
    CASE rrType = "CAA" -> IF name \in CAANames THEN env.caa[name] ELSE lookupResult(<<>>, nil)
      [] rrType = "A" -> env.a
      [] rrType = "AAAA" -> env.aaaa
      [] rrType = "TXT" -> env.txt

(***************************************************************************)
(* scanContext (context.go)                                                *)
(***************************************************************************)
\* rrs maps a name to a map from rrType to lookupResult; both maps grow.
newScanContext == <<>>

\* Lines 27-31: rrMap, ok := sc.rrs[name]; if !ok { sc.rrs[name] = rrMap }
EnsureMap(m, name) == IF name \in DOMAIN m THEN m ELSE (name :> <<>>) @@ m

\* A cache that forgets failed queries
CachedOnlySuccess(m, name, rrType) ==
    name \in DOMAIN m /\ rrType \in DOMAIN m[name] /\ m[name][rrType].Error = "nil"

\* Line 32: result, ok := rrMap[rrType]
Cached(m, name, rrType) == name \in DOMAIN m /\ rrType \in DOMAIN m[name]

\* Lines 41-46: rrMap[rrType] = lookupResult{...}; rrMap is the map stored under name.
StoreResult(m, name, rrType, result) == (name :> ((rrType :> result) @@ m[name])) @@ m

\* One uninterrupted call of Lookup, as a checker running alone makes it.
\* c carries the cache, the resolver log and the HTTP log.
Lookup(c, env, name, rrType) ==
    LET m == EnsureMap(c.rrs, name)
    IN  IF Cached(m, name, rrType)
        THEN [c |-> [c EXCEPT !.rrs = m], result |-> m[name][rrType]]
        ELSE LET resolved == lookup(env, name, rrType)
             IN  [c |-> [c EXCEPT !.rrs = StoreResult(m, name, rrType, resolved),
                                  !.queries = Append(@, <<name, rrType>>)],
                  result |-> resolved]

(***************************************************************************)
(* The HTTP prober, at its interface: one request to one address yields an *)
(* httpCheckResult and zero or one Problem.                                *)
(***************************************************************************)
httpCheckResult(status, server) == [StatusCode |-> status, ServerHeader |-> server]

ResultIsZero(r) == r.StatusCode = 0

\* What a target address does when probed.
HttpBehaviours == {"ok-nginx", "notfound-apache", "error500", "refused"}
HttpEnvs == [Addresses -> HttpBehaviours]

\* An error value: its dynamic type, whether it is a timeout, and how its text ends
Error(type, timeout, tail) == [type |-> type, timeout |-> timeout, tail |-> tail]

\* fmt.Errorf("... %v", e): a plain error whose text ends as e's text does
Wrapping(e) == Error("error", FALSE, e.tail)

HTTPSMismatch == "http: server gave HTTP response to HTTPS client"

\* A translation that does not know redirect errors
translateHTTPErrorNoRedirect(e, ip) ==
    IF e.tail = HTTPSMismatch THEN Problem("WebserverMisconfiguration", SeverityError)
    ELSE IF ip.fam = 6 THEN Problem("AAAANotWorking", SeverityError)
                       ELSE Problem("ANotWorking", SeverityError)

translateHTTPError(e, ip) ==
    IF e.type = "redirectError" THEN Problem("BadRedirect", SeverityError)
    ELSE IF e.tail = HTTPSMismatch THEN Problem("WebserverMisconfiguration", SeverityError)
    ELSE IF ip.fam = 6 THEN Problem("AAAANotWorking", SeverityError)
                       ELSE Problem("ANotWorking", SeverityError)

checkHTTP(henv, ip) ==
    CASE henv[ip] = "ok-nginx" ->
            [res |-> httpCheckResult(200, "nginx"), prob |-> Problem("", "")]
      [] henv[ip] = "notfound-apache" ->
            [res |-> httpCheckResult(404, "apache"), prob |-> Problem("", "")]
      [] henv[ip] = "error500" ->
            [res |-> httpCheckResult(500, "nginx"),
             prob |-> Problem("UnexpectedHttpResponse", SeverityWarning)]
      [] henv[ip] = "refused" ->
            [res |-> httpCheckResult(0, ""), prob |-> translateHTTPError(Error("url.Error", FALSE, "connection refused"), ip)]

\* A test that takes no address for reserved
isAddressReservedNever(ip) == FALSE

isAddressReserved(ip) == ip.reserved

(***************************************************************************)
(* The registered checkers. Each takes the scan context c (cache, resolver *)
(* log, HTTP log) and yields its return value and the context afterwards.  *)
(***************************************************************************)
Ran(c, out) == [c |-> c, out |-> out]

HasWildcardPrefix(d) == Len(d) >= 2 /\ d[1] = "*"

tlssni0102Checker(c, d, m) ==
    IF m # TLSSNI01 /\ m # TLSSNI02
    THEN Ran(c, Return(<<>>, errNotApplicable))
    ELSE Ran(c, Return(<<Problem("ValidationMethodDisabled", SeverityFatal)>>, nil))

wildcardDns01OnlyChecker(c, d, m) ==
    IF ~HasWildcardPrefix(d) THEN Ran(c, Return(<<>>, errNotApplicable))
    ELSE IF m = DNS01 THEN Ran(c, Return(<<>>, errNotApplicable))
    ELSE Ran(c, Return(<<Problem("MethodNotSuitable", SeverityFatal)>>, nil))

validMethodChecker(c, d, m) ==
    IF m \in ValidMethods
    THEN Ran(c, Return(<<>>, errNotApplicable))
    ELSE Ran(c, Return(<<Problem("InvalidMethod", SeverityFatal)>>, nil))

\* strings.Trim(strings.SplitN(value, ";", 2)[0], " \t") over the value's tokens
RECURSIVE TrimLeft(_)
TrimLeft(v) == IF Len(v) > 0 /\ Head(v) \in {" ", "\t"} THEN TrimLeft(Tail(v)) ELSE v
RECURSIVE TrimRight(_)
TrimRight(v) ==
    IF Len(v) > 0 /\ v[Len(v)] \in {" ", "\t"} THEN TrimRight(SubSeq(v, 1, Len(v) - 1)) ELSE v
RECURSIVE BeforeSemicolon(_)
BeforeSemicolon(v) ==
    IF Len(v) = 0 \/ Head(v) = ";" THEN <<>> ELSE <<Head(v)>> \o BeforeSemicolon(Tail(v))
extractIssuerDomain(value) == TrimRight(TrimLeft(BeforeSemicolon(value)))

\* A suffix function that takes every name for a public suffix
PublicSuffixIsName(d) == d

\* publicsuffix.PublicSuffix for the names of the model, all under the suffix org
PublicSuffix(d) == IF Len(d) = 0 THEN <<>> ELSE <<d[Len(d)]>>

\* A CAA checker that looks at the name itself and never at its parents
caaCheckerNoWalk(c, env, d, m) ==
    LET dom == IF HasWildcardPrefix(d) THEN Tail(d) ELSE d
        l == Lookup(c, env, dom, "CAA")
    IN  IF l.result.Error # nil
        THEN Ran(l.c, Return(<<Problem("DNSLookupFailed", SeverityFatal)>>, nil))
        ELSE Ran(l.c, Return(<<>>, nil))

RECURSIVE caaChecker(_, _, _, _)
caaChecker(c, env, d, m) ==
    LET wildcard == HasWildcardPrefix(d)
        dom == IF wildcard THEN Tail(d) ELSE d
        l == Lookup(c, env, dom, "CAA")
        caas == SelectSeq(l.result.RRs, LAMBDA rr : rr.Type = "CAA")
        issue == SelectSeq(caas, LAMBDA rr : rr.Tag = "issue")
        issuewild == SelectSeq(caas, LAMBDA rr : rr.Tag = "issuewild")
        criticalUnknown ==
            SelectSeq(caas, LAMBDA rr : rr.Tag \notin {"issue", "issuewild"} /\ rr.Flag = 1)
        records == IF wildcard /\ Len(issuewild) > 0 THEN issuewild ELSE issue
        debug == debugProblem("CAA")
        ps == PublicSuffix(dom)
    IN  IF l.result.Error # nil
        THEN Ran(l.c, Return(<<Problem("DNSLookupFailed", SeverityFatal)>>, nil))
        ELSE IF Len(l.result.RRs) > 0
        THEN IF Len(criticalUnknown) > 0
             THEN Ran(l.c, Return(<<debug, Problem("CAACriticalUnknown", SeverityFatal)>>, nil))
             ELSE IF Len(issue) = 0 /\ ~wildcard
             THEN Ran(l.c, Return(<<debug>>, nil))
             ELSE IF \E i \in 1..Len(records) :
                         extractIssuerDomain(records[i].Value) = <<"letsencrypt.org">>
             THEN Ran(l.c, Return(<<debug>>, nil))
             ELSE Ran(l.c, Return(<<debug, Problem("CAAIssuanceNotAllowed", SeverityFatal)>>, nil))
        ELSE IF dom # ps /\ ps # <<>>
        THEN LET parent == caaChecker(l.c, env, Tail(dom), m)
             IN  IF parent.out.err # nil
                 THEN Ran(parent.c, Return(<<>>, "error checking caa record on domain"))
                 ELSE Ran(parent.c, Return(parent.out.probs, nil))
        ELSE Ran(l.c, Return(<<>>, nil))

\* The Problems for the reserved addresses among the records of one type
RECURSIVE ReservedProblems(_, _)
ReservedProblems(records, rrType) ==
    IF Len(records) = 0 THEN <<>>
    ELSE (IF Head(records).Type = rrType /\ isAddressReserved(Head(records).ip)
          THEN <<Problem("ReservedAddress", SeverityFatal)>> ELSE <<>>)
         \o ReservedProblems(Tail(records), rrType)

\* A dnsAChecker that hands a failed lookup on as its error
dnsACheckerPropagating(c, env, d, m, aFirst) ==
    IF m # HTTP01 THEN Ran(c, Return(<<>>, errNotApplicable))
    ELSE
    LET l1 == Lookup(c, env, d, IF aFirst THEN "A" ELSE "AAAA")
        l2 == Lookup(l1.c, env, d, IF aFirst THEN "AAAA" ELSE "A")
    IN  IF l1.result.Error # nil THEN Ran(l2.c, Return(<<>>, l1.result.Error))
        ELSE IF l2.result.Error # nil THEN Ran(l2.c, Return(<<>>, l2.result.Error))
        ELSE Ran(l2.c, Return(<<debugProblem("HTTPRecords")>>, nil))

\* dnsAChecker looks A and AAAA up in two goroutines; aFirst says which one
\* reaches the resolver first.
dnsAChecker(c, env, d, m, aFirst) ==
    IF m # HTTP01 THEN Ran(c, Return(<<>>, errNotApplicable))
    ELSE
    LET l1 == Lookup(c, env, d, IF aFirst THEN "A" ELSE "AAAA")
        l2 == Lookup(l1.c, env, d, IF aFirst THEN "AAAA" ELSE "A")
        a == IF aFirst THEN l1.result ELSE l2.result
        aaaa == IF aFirst THEN l2.result ELSE l1.result
        sb == a.RRs \o aaaa.RRs
    IN  Ran(l2.c, Return(
            (IF a.Error # nil THEN <<Problem("DNSLookupFailed", SeverityFatal)>> ELSE <<>>)
            \o (IF aaaa.Error # nil THEN <<Problem("DNSLookupFailed", SeverityFatal)>> ELSE <<>>)
            \o ReservedProblems(a.RRs, "A")
            \o ReservedProblems(aaaa.RRs, "AAAA")
            \o (IF Len(sb) > 0 THEN <<debugProblem("HTTPRecords")>> ELSE <<>>)
            \o (IF Len(sb) = 0 THEN <<Problem("NoRecords", SeverityFatal)>> ELSE <<>>),
            nil))

\* The addresses of the records of one type, in order
RECURSIVE AddressesOf(_, _)
AddressesOf(records, rrType) ==
    IF Len(records) = 0 THEN <<>>
    ELSE (IF Head(records).Type = rrType THEN <<Head(records).ip>> ELSE <<>>)
         \o AddressesOf(Tail(records), rrType)

\* The loop over ips of httpAccessibilityChecker: st is (c, probs, v4Res, v6Res).
RECURSIVE ProbeAll(_, _, _)
ProbeAll(st, henv, ips) ==
    IF Len(ips) = 0 THEN st
    ELSE LET ip == Head(ips)
             r == checkHTTP(henv, ip)
             takeV4 == ResultIsZero(st.v4Res) /\ ip.fam = 4
             takeV6 == ~takeV4 /\ ResultIsZero(st.v6Res)
         IN  ProbeAll([c |-> [st.c EXCEPT !.http = Append(@, ip)],
                       probs |-> IF ~IsZero(r.prob) THEN Append(st.probs, r.prob) ELSE st.probs,
                       v4Res |-> IF takeV4 THEN r.res ELSE st.v4Res,
                       v6Res |-> IF takeV6 THEN r.res ELSE st.v6Res],
                      henv, Tail(ips))

httpAccessibilityChecker(c, env, henv, d, m) ==
    IF m # HTTP01 THEN Ran(c, Return(<<>>, errNotApplicable))
    ELSE
    LET l1 == Lookup(c, env, d, "AAAA")
        l2 == Lookup(l1.c, env, d, "A")
        ips == AddressesOf(l1.result.RRs, "AAAA") \o AddressesOf(l2.result.RRs, "A")
        zero == httpCheckResult(0, "")
        st == ProbeAll([c |-> l2.c, probs |-> <<>>, v4Res |-> zero, v6Res |-> zero], henv, ips)
        differ == (~ResultIsZero(st.v4Res) /\ ~ResultIsZero(st.v6Res))
                  /\ (st.v4Res.StatusCode # st.v6Res.StatusCode
                      \/ st.v4Res.ServerHeader # st.v6Res.ServerHeader)
    IN  IF Len(ips) = 0 THEN Ran(l2.c, Return(<<>>, nil))
        ELSE Ran(st.c, Return(
                st.probs
                \o (IF differ THEN <<Problem("IPv4IPv6Discrepancy", SeverityWarning)>> ELSE <<>>)
                \o <<debugProblem("HTTPCheck")>>,
                nil))

\* The name the challenge's TXT record lives at
ChallengeName(dom) == <<"_acme-challenge">> \o dom

txtRecordChecker(c, env, d, m) ==
    IF m # DNS01 THEN Ran(c, Return(<<>>, errNotApplicable))
    ELSE
    LET dom == IF HasWildcardPrefix(d) THEN Tail(d) ELSE d
        l == Lookup(c, env, ChallengeName(dom), "TXT")
    IN  IF l.result.Error # nil
        THEN Ran(l.c, Return(<<Problem("TXTRecordError", SeverityFatal)>>, nil))
        ELSE Ran(l.c, Return(<<>>, nil))

\* An error of the ACME client: an acme.AcmeError with its type (less the urn
\* prefix) and whether its detail speaks of an unsafe domain, or any other error.
AcmeError(urn, unsafe) == [acme |-> TRUE, urn |-> urn, unsafe |-> unsafe]
OtherError == [acme |-> FALSE, urn |-> "", unsafe |-> FALSE]
NoAcmeError == [acme |-> FALSE, urn |-> "nil", unsafe |-> FALSE]
AcmeErrors ==
    {AcmeError(urn, FALSE) : urn \in {"rejectedIdentifier", "unknownHost", "rateLimited", "caa",
                                      "serverInternal", "unauthorized", "malformed"}}
    \cup {AcmeError("unauthorized", TRUE), OtherError}

translateAcmeError(err) ==
    IF err.acme
    THEN CASE err.urn \in {"rejectedIdentifier", "unknownHost", "rateLimited", "caa"} ->
                 Problem("IssueFromLetsEncrypt", SeverityError)
           [] err.urn = "serverInternal" -> Problem("IssueFromLetsEncrypt", SeverityWarning)
           [] err.urn = "unauthorized" ->
                 IF err.unsafe THEN Problem("IssueFromLetsEncrypt", SeverityError)
                 ELSE Problem("", "")
           [] OTHER -> Problem("", "")
    ELSE Problem("InternalProblem", SeverityWarning)

\* What the staging service does during one acmeStagingChecker.Check: the checker
\* may be disabled, the client may fail to build, and NewOrder,
\* FetchAuthorization and UpdateChallenge each fail or not; the order has one
\* authorization, which may lack the challenge of the method.
AcmeEnvs ==
    [disabled : BOOLEAN, build : {NoAcmeError, OtherError},
     order : AcmeErrors \cup {NoAcmeError}, fetch : {NoAcmeError, OtherError},
     challenge : BOOLEAN, update : AcmeErrors \cup {NoAcmeError}]

\* if p := translateAcmeError(domain, err); p.Name != "" { probs = append(probs, p) }
Translated(err) ==
    LET p == translateAcmeError(err) IN IF p.Name # "" THEN <<p>> ELSE <<>>

acmeStagingChecker(c, aenv) ==
    LET unhandled == <<Problem("InternalProblem", SeverityWarning)>>
        note == <<debugProblem("LetsEncryptStaging")>>
    IN  IF aenv.disabled THEN Ran(c, Return(<<>>, errNotApplicable))
        ELSE IF aenv.build # NoAcmeError THEN Ran(c, Return(unhandled, nil))
        ELSE IF aenv.order # NoAcmeError
             THEN Ran(c, Return(Translated(aenv.order) \o note, nil))
        ELSE IF aenv.fetch # NoAcmeError THEN Ran(c, Return(unhandled \o note, nil))
        ELSE IF ~aenv.challenge THEN Ran(c, Return(unhandled \o note, nil))
        ELSE IF aenv.update # NoAcmeError
             THEN Ran(c, Return(Translated(aenv.update) \o note, nil))
        ELSE Ran(c, Return(note, nil))

\* checker.Check(ctx, domain, method) for the checker registered under name:
\* the set of things the call can do.
CheckerCheck(name, c, env, d, m) ==
    CASE name = "validMethodChecker" -> {validMethodChecker(c, d, m)}
      [] name = "tlssni0102DisabledChecker" -> {tlssni0102Checker(c, d, m)}
      [] name = "wildcardDns01OnlyChecker" -> {wildcardDns01OnlyChecker(c, d, m)}
      [] name = "caaChecker" -> {caaChecker(c, env, d, m)}
      [] name = "dnsAChecker" -> {dnsAChecker(c, env, d, m, aFirst) : aFirst \in BOOLEAN}
      [] name = "httpAccessibilityChecker" ->
            {httpAccessibilityChecker(c, env, henv, d, m) : henv \in HttpEnvs}
      [] name = "acmeStagingChecker" -> {acmeStagingChecker(c, aenv) : aenv \in AcmeEnvs}
      [] name = "txtRecordChecker" ->
            {txtRecordChecker(c, [txt |-> t] @@ env, d, m) : t \in TXTResults}
      [] name \in StubKinds -> {Ran(c, out) : out \in StubCheck(name)}

(***************************************************************************)
(* Check (letsdebug.go)                                                    *)
(***************************************************************************)
\* The scan context as the checkers see it
Ctx == [rrs |-> rrs, queries |-> queryLog, http |-> httpLog]

\* Lines 28-30: probs = append(probs, checkerProbs...)
AppendProbsPrepending(ps, checkerProbs) == checkerProbs \o ps

AppendProbs(ps, checkerProbs) == ps \o checkerProbs

\* Line 36: the sentinel is told apart from every other error
IsNotApplicableNever(err) == FALSE

IsNotApplicableAnyError(err) == TRUE

IsNotApplicable(err) == err = errNotApplicable

\* Lines 16-20: the deferred function recovers the panic value r
recoverPanicMissing(r) == [recovered |-> FALSE, retErr |-> nil]

recoverPanic(r) == [recovered |-> TRUE, retErr |-> "panic: " \o r]

\* The checkers init() leaves out of the registry, each run on its own
UnregisteredCheckers == {<<"acmeStagingChecker">>, <<"txtRecordChecker">>}

StubRegistries == UNION {[1..n -> StubKinds] : n \in 1..MaxCheckers}

InitCheck ==
    /\ \/ /\ checkers \in StubRegistries
          /\ domain = <<>>
          /\ method = ""
          /\ dnsEnv = [caa |-> [n \in CAANames |-> lookupResult(<<>>, nil)],
                       a |-> lookupResult(<<>>, nil), aaaa |-> lookupResult(<<>>, nil)]
       \/ /\ checkers = RegisteredCheckers
          /\ domain \in Domains
          /\ method \in Methods
          /\ dnsEnv \in DnsEnvs
       \/ /\ checkers \in UnregisteredCheckers
          /\ domain \in Domains
          /\ method \in ValidMethods
          /\ dnsEnv = [caa |-> [n \in CAANames |-> lookupResult(<<>>, nil)],
                       a |-> lookupResult(<<>>, nil), aaaa |-> lookupResult(<<>>, nil)]
    /\ pc = "start"
    /\ idx = 1
    /\ probs = <<>>
    /\ retErr = nil
    /\ calls = [i \in 1..Len(checkers) |-> 0]
    /\ returned = <<>>
    /\ rrs = <<>>
    /\ queryLog = <<>>
    /\ httpLog = <<>>
    /\ crashed = FALSE

\* Lines 22-24: the scan context is made and the domain normalized
CheckBegin ==
    /\ pc = "start"
    /\ rrs' = newScanContext
    /\ pc' = "loop"
    /\ UNCHANGED <<checkers, domain, method, dnsEnv, idx, probs, retErr, calls, returned,
                   queryLog, httpLog, crashed, lookupVars, asyncVars, otherVars>>

\* Line 27: checker.Check(ctx, domain, method) is called for the checker at idx
InvokeChecker ==
    /\ pc = "loop"
    /\ idx <= Len(checkers)
    /\ calls' = [calls EXCEPT ![idx] = @ + 1]
    /\ pc' = "call"
    /\ UNCHANGED <<checkers, domain, method, dnsEnv, idx, probs, retErr, returned,
                   rrs, queryLog, httpLog, crashed, lookupVars, asyncVars, otherVars>>

\* The checker at idx runs to its end and its effects on the context land
Ends(r) ==
    /\ rrs' = r.c.rrs
    /\ queryLog' = r.c.queries
    /\ httpLog' = r.c.http
    /\ returned' = Append(returned, [idx |-> idx, out |-> r.out])
    /\ UNCHANGED <<checkers, domain, method, dnsEnv, calls, lookupVars, asyncVars, otherVars>>

\* Lines 27-35: err == nil
CheckerSucceeds ==
    /\ pc = "call"
    /\ \E r \in CheckerCheck(checkers[idx], Ctx, dnsEnv, domain, method) :
        /\ Ends(r)
        /\ r.out.kind = "return"
        /\ r.out.err = nil
        /\ probs' = (IF Len(r.out.probs) > 0 THEN AppendProbs(probs, r.out.probs) ELSE probs)
        /\ IF hasFatalProblem(probs')
           THEN pc' = "done" /\ idx' = idx
           ELSE pc' = "loop" /\ idx' = idx + 1
        /\ UNCHANGED <<retErr, crashed>>

\* Line 36, condition false: the checker is skipped
CheckerNotApplicable ==
    /\ pc = "call"
    /\ \E r \in CheckerCheck(checkers[idx], Ctx, dnsEnv, domain, method) :
        /\ Ends(r)
        /\ r.out.kind = "return"
        /\ r.out.err # nil
        /\ IsNotApplicable(r.out.err)
        /\ pc' = "loop"
        /\ idx' = idx + 1
        /\ UNCHANGED <<probs, retErr, crashed>>

\* Lines 36-37: return nil, err
CheckerFails ==
    /\ pc = "call"
    /\ \E r \in CheckerCheck(checkers[idx], Ctx, dnsEnv, domain, method) :
        /\ Ends(r)
        /\ r.out.kind = "return"
        /\ r.out.err # nil
        /\ ~IsNotApplicable(r.out.err)
        /\ probs' = <<>>
        /\ retErr' = r.out.err
        /\ pc' = "done"
        /\ UNCHANGED <<idx, crashed>>

\* The checker panics: the panic unwinds Check and reaches its deferred function
CheckerPanics ==
    /\ pc = "call"
    /\ \E r \in CheckerCheck(checkers[idx], Ctx, dnsEnv, domain, method) :
        /\ Ends(r)
        /\ r.out.kind = "panic"
        /\ LET rec == recoverPanic(r.out.err)
           IN  IF rec.recovered
               THEN retErr' = rec.retErr /\ pc' = "done" /\ crashed' = FALSE
               ELSE retErr' = retErr /\ pc' = "crashed" /\ crashed' = TRUE
        /\ UNCHANGED <<idx, probs>>

\* Line 40: the loop is over, return probs, nil
CheckReturns ==
    /\ pc = "loop"
    /\ idx > Len(checkers)
    /\ pc' = "done"
    /\ UNCHANGED <<checkers, domain, method, dnsEnv, idx, probs, retErr, calls, returned,
                   rrs, queryLog, httpLog, crashed, lookupVars, asyncVars, otherVars>>

IdleCheck ==
    /\ checkers = <<>> /\ domain = <<>> /\ method = "" /\ dnsEnv = <<>> /\ pc = "idle"
    /\ idx = 1 /\ probs = <<>> /\ retErr = nil /\ calls = <<>> /\ returned = <<>>
    /\ httpLog = <<>>

IdleLookup ==
    /\ lpc = <<>> /\ lkey = <<>> /\ lres = <<>> /\ lret = <<>>
    /\ lcalls = <<>> /\ lseen = {} /\ lqueries = <<>>

IdleAsync ==
    /\ block = <<>> /\ apc = "idle" /\ wpc = "idle" /\ spc = <<>> /\ sout = <<>>
    /\ wg = 0 /\ errChan = <<>> /\ resultsChan = <<>> /\ aprobs = <<>> /\ aerr = nil

IdleScans ==
    /\ heap = <<>> /\ sctx = <<>> /\ scanPc = <<>> /\ nlook = <<>>
    /\ writers = {} /\ hits = {}

IdleHttp ==
    /\ hExpect = <<>> /\ hAddr = <<>> /\ hpc = "idle" /\ hReq = <<>> /\ hVia = 0
    /\ hRes = <<>> /\ hRedirErr = "" /\ hDials = {} /\ hBody = <<>> /\ hProb = <<>>
    /\ hLoc = <<>>

IdleNS == nameServers = <<>> /\ nspc = "idle" /\ nsProbs = <<>>

IdleRes ==
    /\ ubAnswer = <<>> /\ rpc = "idle" /\ rgo = "idle" /\ rChan = <<>>
    /\ rTimed = <<>> /\ rRaw = <<>> /\ rOut = <<>>

\* Nothing but the scenario at hand is running
IdleSort == sortProbs = <<>> /\ lessAsked = {} /\ lessTrue = {}

IdleNorm ==
    rawDomain = <<>> /\ nDomain = <<>> /\ nNormalized = 0 /\ nSeen = <<>> /\ npc = "idle"

IdleFan ==
    /\ fNS = 0 /\ fDual = FALSE /\ fpc = "idle" /\ fwg = 0 /\ fg = <<>> /\ fw = <<>>
    /\ fclosed = <<>> /\ fIPs = 0 /\ fPanic = ""

IdleWeb == tStatus = <<>> /\ tOld = <<>> /\ notifyQ = <<>> /\ wkReq = <<>> /\ wkPc = <<>>

IdleLater == IdleFan /\ IdleWeb

IdleExtra == IdleSort /\ IdleNorm /\ IdleLater

IdleOthers == IdleScans /\ IdleHttp /\ IdleNS /\ IdleRes /\ IdleExtra

Init == InitCheck /\ IdleLookup /\ IdleAsync /\ IdleOthers

Next ==
    \/ CheckBegin
    \/ InvokeChecker
    \/ CheckerSucceeds
    \/ CheckerNotApplicable
    \/ CheckerFails
    \/ CheckerPanics
    \/ CheckReturns

Spec == Init /\ [][Next]_vars

(***************************************************************************)
(* Properties of Check                                                     *)
(***************************************************************************)
ContainsFatal(ps) == \E i \in 1..Len(ps) : ps[i].Severity = "Fatal"

ReturnedOk(k) == returned[k].out.kind = "return" /\ returned[k].out.err = nil

\* The Problem lists of the checkers that returned a nil error, concatenated in order
RECURSIVE ConcatOk(_)
ConcatOk(rs) ==
    IF Len(rs) = 0 THEN <<>>
    ELSE ConcatOk(SubSeq(rs, 1, Len(rs) - 1))
         \o (IF rs[Len(rs)].out.kind = "return" /\ rs[Len(rs)].out.err = nil
             THEN rs[Len(rs)].out.probs ELSE <<>>)

NoneInvokedAfter(k) == \A j \in (k + 1)..Len(checkers) : calls[j] = 0

\* C1: once checker i has returned, with a nil error, a list containing a Fatal
\* Problem, no checker after i is ever invoked and Check returns, with a nil
\* error, every Problem collected up to and including checker i.
C1_FatalStopsScan ==
    \A k \in 1..Len(returned) :
        (ReturnedOk(k) /\ ContainsFatal(returned[k].out.probs))
        => /\ k = Len(returned)
           /\ pc = "done"
           /\ retErr = nil
           /\ probs = ConcatOk(returned)
           /\ NoneInvokedAfter(k)

C1_Witness ==
    /\ pc = "done"
    /\ Len(returned) >= 2
    /\ Len(returned) < Len(checkers)
    /\ ReturnedOk(Len(returned))
    /\ ContainsFatal(returned[Len(returned)].out.probs)
    /\ Len(returned[Len(returned)].out.probs) = 2
    /\ Len(probs) >= 3

C7_NotApplicableSkipped ==
    /\ retErr # errNotApplicable
    /\ \A k \in 1..Len(returned) :
          (returned[k].out.kind = "return" /\ returned[k].out.err = errNotApplicable
           /\ k = Len(returned))
          => /\ retErr = nil
             /\ probs = ConcatOk(SubSeq(returned, 1, k - 1))
             /\ idx = k + 1
             /\ pc \in {"loop", "call", "done"}
             /\ (pc = "done" => k = Len(checkers))

C7_Witness ==
    /\ pc = "done"
    /\ retErr = nil
    /\ \E k \in 1..Len(returned) :
          /\ k < Len(returned)
          /\ returned[k].out.err = errNotApplicable
          /\ Len(returned[k].out.probs) > 0
          /\ ReturnedOk(k + 1)
          /\ Len(probs) = Len(returned[k + 1].out.probs)
          /\ Len(probs) > 0

\* C8: when a checker returns an error other than errNotApplicable, Check returns
\* that error as its own and invokes no further checker, whatever was collected.
C8_ErrorAbortsScan ==
    \A k \in 1..Len(returned) :
        (returned[k].out.kind = "return" /\ returned[k].out.err \notin {nil, errNotApplicable})
        => /\ k = Len(returned)
           /\ pc = "done"
           /\ retErr = returned[k].out.err
           /\ NoneInvokedAfter(k)

C8_Witness ==
    /\ pc = "done"
    /\ retErr = errFailure
    /\ Len(returned) >= 2
    /\ Len(returned) < Len(checkers)
    /\ ReturnedOk(1)
    /\ Len(returned[1].out.probs) > 0

\* C9: with the registered checkers, a method that is not a recognised
\* ValidationMethod is rejected with a Fatal InvalidMethod Problem and no DNS
\* lookup and no HTTP request is issued during the Check call.
C9_UnknownMethodNoNetwork ==
    (checkers = RegisteredCheckers /\ method \notin ValidMethods)
    => /\ queryLog = <<>>
       /\ httpLog = <<>>
       /\ (pc = "done" => (retErr = nil /\ ContainsFatal(probs)))

\* C10: Check returns the concatenation, in registry order, of the Problem lists
\* of the checkers that returned a nil error, and the checkers are invoked one
\* after another, each only once its predecessor has returned.
C10_ConcatenationInOrder ==
    /\ (pc = "done" /\ retErr = nil) => probs = ConcatOk(returned)
    /\ \A k \in 1..Len(returned) : returned[k].idx = k
    /\ \A j \in 1..Len(checkers) :
          /\ calls[j] <= 1
          /\ calls[j] = 1 => Len(returned) >= j - 1
    /\ pc = "call" => (Len(returned) = idx - 1 /\ calls[idx] = 1)

C10_Witness ==
    /\ pc = "done"
    /\ retErr = nil
    /\ Len(returned) = 3
    /\ ReturnedOk(1) /\ ReturnedOk(2) /\ ReturnedOk(3)
    /\ returned[1].out.probs = <<Problem("SpyWarning", SeverityWarning)>>
    /\ returned[2].out.probs = <<Problem("Empty", "")>>
    /\ probs = <<Problem("SpyWarning", SeverityWarning), Problem("Empty", "")>>

\* C23: no Problem with an empty Name is ever in the list a registered checker (or
\* the staging checker) returned, nor in the list Check returns: the prober's
\* zero-value Problem and the ACME errors that translate to no Problem are left
\* out when the lists are built.
C23_NoZeroProblemEmitted ==
    checkers \in {RegisteredCheckers} \cup UnregisteredCheckers =>
        /\ \A k \in 1..Len(returned) : \A i \in 1..Len(returned[k].out.probs) :
               returned[k].out.probs[i].Name # ""
        /\ \A i \in 1..Len(probs) : probs[i].Name # ""

\* A scan whose every probe succeeded: httpAccessibilityChecker made requests and
\* returned nothing but its closing note.
C23_Witness ==
    /\ checkers = RegisteredCheckers
    /\ pc = "done"
    /\ Len(httpLog) >= 2
    /\ returned # <<>>
    /\ returned[Len(returned)].idx = 5
    /\ Len(returned[Len(returned)].out.probs) = 1

\* The method is tls-sni-01 or tls-sni-02
MethodDisabled == method \in {TLSSNI01, TLSSNI02}

LookupOwner(rrType) ==
    CASE rrType = "CAA" -> "caaChecker"
      [] rrType \in {"A", "AAAA"} -> "dnsAChecker"
      [] rrType = "TXT" -> "txtRecordChecker"

LookupProblem(rrType) ==
    IF rrType = "TXT" THEN Problem("TXTRecordError", SeverityFatal)
    ELSE Problem("DNSLookupFailed", SeverityFatal)

FailedLookups ==
    {k \in {<<name, rrType>> : name \in DOMAIN rrs, rrType \in {"CAA", "A", "AAAA", "TXT"}} :
        /\ k[2] \in DOMAIN rrs[k[1]]
        /\ rrs[k[1]][k[2]].Error # nil}

\* C25: when the resolver answered a lookup of caaChecker, dnsAChecker or
\* txtRecordChecker with an error, that checker returned a nil error and a list
\* holding DNSLookupFailed (TXTRecordError for the TXT lookup), and Check
\* returns a nil error with that Problem in its list.
C25_LookupFailureIsProblem ==
    checkers \in {RegisteredCheckers} \cup UnregisteredCheckers =>
        \A k \in FailedLookups :
            /\ \E r \in 1..Len(returned) :
                  /\ checkers[returned[r].idx] = LookupOwner(k[2])
                  /\ returned[r].out.kind = "return"
                  /\ returned[r].out.err = nil
                  /\ \E i \in 1..Len(returned[r].out.probs) :
                        returned[r].out.probs[i] = LookupProblem(k[2])
            /\ pc = "done" =>
                  /\ retErr = nil
                  /\ \E i \in 1..Len(probs) : probs[i] = LookupProblem(k[2])

\* A scan by http-01 whose A lookup failed after the CAA lookups had succeeded
C25_Witness ==
    /\ checkers = RegisteredCheckers
    /\ pc = "done"
    /\ <<domain, "A">> \in FailedLookups
    /\ retErr = nil

\* The addresses of the domain's A and AAAA records that lie in a reserved network
ReservedOfDomain ==
    {ip \in Addresses :
        /\ ip.reserved
        /\ \/ \E k \in 1..Len(dnsEnv.a.RRs) : dnsEnv.a.RRs[k] = RRA(ip)
           \/ \E k \in 1..Len(dnsEnv.aaaa.RRs) : dnsEnv.aaaa.RRs[k] = RRAAAA(ip)}

\* C37: in an http-01 scan with the registered checkers no HTTP request goes to
\* a reserved address: a reserved A or AAAA address of the domain is reported as
\* a Problem and the scan sends no request to it.
C37_NoProbeOfReservedAddress ==
    (checkers = RegisteredCheckers /\ method = HTTP01)
    => /\ \A k \in 1..Len(httpLog) : ~httpLog[k].reserved
       /\ (pc = "done" /\ retErr = nil /\ calls[4] = 1 /\ ReservedOfDomain # {})
          => \E k \in 1..Len(probs) : probs[k].Name = "ReservedAddress"

\* A scan of a domain with a reserved address has ended after dnsAChecker
\* reported the address.
C37_Witness ==
    /\ checkers = RegisteredCheckers
    /\ method = HTTP01
    /\ pc = "done"
    /\ calls[4] = 1
    /\ ReservedOfDomain # {}
    /\ \E k \in 1..Len(probs) : probs[k].Name = "ReservedAddress"
    /\ httpLog = <<>>

\* The Problems httpAccessibilityChecker returned in this scan
HTTPCheckerProblems ==
    UNION {{returned[i].out.probs[k] : k \in 1..Len(returned[i].out.probs)} :
           i \in {j \in 1..Len(returned) :
                     checkers[returned[j].idx] = "httpAccessibilityChecker"}}

\* The address families the domain has records of
Families ==
    {ip.fam : ip \in {AddressesOf(dnsEnv.a.RRs, "A")[k] : k \in 1..Len(AddressesOf(dnsEnv.a.RRs, "A"))}
                    \cup {AddressesOf(dnsEnv.aaaa.RRs, "AAAA")[k] :
                            k \in 1..Len(AddressesOf(dnsEnv.aaaa.RRs, "AAAA"))}}

\* C32: httpAccessibilityChecker keeps one response of an IPv4 address in v4Res
\* and one of an IPv6 address in v6Res, so that IPv4IPv6Discrepancy is reported
\* only for a domain that has addresses of both families.
C32_DiscrepancyNeedsBothFamilies ==
    Problem("IPv4IPv6Discrepancy", SeverityWarning) \in HTTPCheckerProblems
        => Families = {4, 6}

(***************************************************************************)
(* caaChecker.Check applied to one domain, over the CAA answers the        *)
(* resolver may give for the domain and its ancestors (generic.go)         *)
(***************************************************************************)
IssuerLE == <<"letsencrypt.org">>
IssuerOther == <<"othertrustca.com">>
IssuerLEParams == <<" ", "letsencrypt.org", " ", ";", " ", "validationmethods=dns-01">>

\* The resource records an answer to a CAA query may hold
CAARecords ==
    { RRCAA(0, "issue", IssuerLE), RRCAA(0, "issue", IssuerOther),
      RRCAA(0, "issue", IssuerLEParams),
      RRCAA(0, "issuewild", IssuerLE), RRCAA(0, "issuewild", IssuerOther),
      RRCAA(0, "tbs", <<"x">>), RRCAA(1, "tbs", <<"x">>), RRCAA(128, "tbs", <<"x">>),
      RRCNAME }

\* The answers for the label under study, example.org
CAARichAnswers ==
    {lookupResult(rs, nil) : rs \in UNION {[1..n -> CAARecords] : n \in 0..MaxCAARecords}}
    \cup {lookupResult(<<>>, ServFail)}

CAAEnvs ==
    [caa : { [n \in CAANames |->
                IF n = <<"example", "org">> THEN mid
                ELSE IF n = <<"org">> THEN top ELSE low] :
             low \in CAAAnswers \cup {lookupResult(<<RRCAA(128, "tbs", <<"x">>)>>, nil)},
             mid \in CAARichAnswers,
             top \in {lookupResult(<<>>, nil),
                      lookupResult(<<RRCAA(0, "issue", IssuerOther)>>, nil)} },
     a : {lookupResult(<<>>, nil)}, aaaa : {lookupResult(<<>>, nil)}]

\* The domains caaChecker is asked about: those of a scan, and a wildcard below
\* a label that may have no records of its own
CAADomains == Domains \cup {<<"*", "sub", "example", "org">>}

InitCAA ==
    /\ checkers = <<"caaChecker">>
    /\ domain \in CAADomains
    /\ method \in {HTTP01, DNS01}
    /\ dnsEnv \in CAAEnvs
    /\ pc = "start"
    /\ idx = 1
    /\ probs = <<>>
    /\ retErr = nil
    /\ calls = <<0>>
    /\ returned = <<>>
    /\ httpLog = <<>>
    /\ rrs = newScanContext
    /\ queryLog = <<>>
    /\ crashed = FALSE

\* probs, err := caaChecker{}.Check(ctx, domain, method)
CaaCheckerChecks ==
    /\ pc = "start"
    /\ LET r == caaChecker(Ctx, dnsEnv, domain, method)
       IN  /\ rrs' = r.c.rrs
           /\ queryLog' = r.c.queries
           /\ returned' = <<[idx |-> 1, out |-> r.out]>>
           /\ probs' = r.out.probs
           /\ retErr' = r.out.err
    /\ calls' = <<1>>
    /\ pc' = "done"
    /\ UNCHANGED <<checkers, domain, method, dnsEnv, idx, httpLog, crashed,
                   lookupVars, asyncVars, otherVars>>

NextCAA == CaaCheckerChecks

CAAInit == InitCAA /\ IdleLookup /\ IdleAsync /\ IdleOthers

SpecCAA == CAAInit /\ [][NextCAA]_vars

\* sub.example.org has no CAA records and example.org answers with records
InheritsFrom(records) ==
    /\ domain = <<"sub", "example", "org">>
    /\ dnsEnv.caa[domain] = lookupResult(<<>>, nil)
    /\ dnsEnv.caa[Tail(domain)] = lookupResult(records, nil)

FatalProblems(ps) == SelectSeq(ps, LAMBDA p : p.Severity = SeverityFatal)

\* C13 as claimed: a domain with no CAA records whose parent carries
\* 0 issue "letsencrypt.org" gets no Problem at all from caaChecker.Check.
C13_InheritedPermissionNoProblem ==
    (pc = "done" /\ InheritsFrom(<<RRCAA(0, "issue", IssuerLE)>>)) => probs = <<>>

\* C13 amended: in that case caaChecker.Check returns a nil error and exactly one
\* Problem, the debug note named CAA it appends whenever a label has CAA records.
C13_InheritedPermission ==
    (pc = "done" /\ InheritsFrom(<<RRCAA(0, "issue", IssuerLE)>>)) =>
        /\ Len(probs) = 1
        /\ probs[1].Name = "CAA"
        /\ retErr = nil

C13_Witness ==
    /\ pc = "done"
    /\ InheritsFrom(<<RRCAA(0, "issue", IssuerLE)>>)
    /\ queryLog = <<<<domain, "CAA">>, <<Tail(domain), "CAA">>>>

\* C14: a domain with no CAA records whose parent carries only
\* 0 issue "othertrustca.com" gets exactly one Fatal Problem from
\* caaChecker.Check, and it is named CAAIssuanceNotAllowed.
C14_InheritedDenial ==
    (pc = "done" /\ InheritsFrom(<<RRCAA(0, "issue", IssuerOther)>>)) =>
        /\ FatalProblems(probs) = <<Problem("CAAIssuanceNotAllowed", SeverityFatal)>>
        /\ retErr = nil

C14_Witness ==
    /\ pc = "done"
    /\ InheritsFrom(<<RRCAA(0, "issue", IssuerOther)>>)
    /\ Len(probs) = 2
    /\ probs[2].Name = "CAAIssuanceNotAllowed"

\* The answer at the label where the walk of caaChecker.Check ended
FoundAnswer == dnsEnv.caa[queryLog[Len(queryLog)][1]]

\* The issuer-critical flag of a CAA record is the bit of value 128 of its flags
\* byte (RFC 8659, section 4.1)
IssuerCritical(flag) == (flag \div 128) % 2 = 1

CriticalUnknownIn(records) ==
    \E i \in 1..Len(records) :
        /\ records[i].Type = "CAA"
        /\ records[i].Tag \notin {"issue", "issuewild"}
        /\ IssuerCritical(records[i].Flag)

\* C15: whenever the CAA record set found at a label holds a record with an
\* unrecognized tag and the critical flag set, caaChecker.Check returns a Fatal
\* CAACriticalUnknown Problem, whatever issue/issuewild records are also there.
C15_CriticalUnknownFatal ==
    (pc = "done" /\ FoundAnswer.Error = nil /\ CriticalUnknownIn(FoundAnswer.RRs)) =>
        \E i \in 1..Len(probs) : probs[i] = Problem("CAACriticalUnknown", SeverityFatal)

\* The CAA records of an answer that carry the tag
Tagged(records, tag) == SelectSeq(records, LAMBDA rr : rr.Type = "CAA" /\ rr.Tag = tag)

\* The record set that governs a request: issuewild, if there is any, for a
\* wildcard request, issue otherwise
Governing(records, wild) ==
    IF wild /\ Tagged(records, "issuewild") # <<>>
    THEN Tagged(records, "issuewild") ELSE Tagged(records, "issue")

Permits(records) ==
    \E i \in 1..Len(records) : extractIssuerDomain(records[i].Value) = IssuerLE

\* The answer found holds records, all of them issue, issuewild or no CAA record
FoundIssueRecordsOnly ==
    /\ FoundAnswer.Error = nil
    /\ Len(FoundAnswer.RRs) > 0
    /\ \A i \in 1..Len(FoundAnswer.RRs) :
          FoundAnswer.RRs[i].Type = "CAA" => FoundAnswer.RRs[i].Tag \in {"issue", "issuewild"}

Denied == \E i \in 1..Len(probs) : probs[i].Name = "CAAIssuanceNotAllowed"

\* C26: at whichever label the walk finds CAA records, the domain itself or an
\* ancestor, the record set evaluated follows the wildcard status of the domain
\* asked about: issuewild (if any exist there, else issue) for a wildcard domain,
\* issue for any other; issuance is denied exactly if that set, when not empty,
\* names no letsencrypt.org.
C26_SelectionFollowsWildcard ==
    (/\ pc = "done"
     /\ FoundIssueRecordsOnly
     /\ Governing(FoundAnswer.RRs, HasWildcardPrefix(domain)) # <<>>)
    => (Denied <=> ~Permits(Governing(FoundAnswer.RRs, HasWildcardPrefix(domain))))

\* C27: caaChecker.Check reports CAAIssuanceNotAllowed only if the record set it
\* selected at the label found is not empty and names no letsencrypt.org; a
\* label whose answer holds no issue and no issuewild record never yields it,
\* for a wildcard domain or any other.
C27_DeniedOnlyByRecords ==
    (pc = "done" /\ Denied) =>
        \E wild \in BOOLEAN :
            /\ Governing(FoundAnswer.RRs, wild) # <<>>
            /\ ~Permits(Governing(FoundAnswer.RRs, wild))

\* The domain without its wildcard label
Dewildcarded == IF HasWildcardPrefix(domain) THEN Tail(domain) ELSE domain

\* The registrable domain: the public suffix and one more label
Registrable(d) == SubSeq(d, Len(d) - Len(PublicSuffix(d)), Len(d))

\* C28: the walk of caaChecker.Check ends, having looked up exactly the chain of
\* names got by stripping one leftmost label at a time from the de-wildcarded
\* domain, no label skipped, up to the first label whose lookup gave records
\* (or failed) or up to the registrable domain, whichever comes first; the
\* public suffix itself and the names above the registrable domain are never
\* looked up.
C28_WalkStopsAtRegistrable ==
    pc = "done" =>
        /\ Len(queryLog) \in 1..Len(Dewildcarded)
        /\ \A q \in 1..Len(queryLog) :
              /\ queryLog[q] = <<SubSeq(Dewildcarded, q, Len(Dewildcarded)), "CAA">>
              /\ Len(queryLog[q][1]) >= Len(Registrable(Dewildcarded))
              /\ q < Len(queryLog) => dnsEnv.caa[queryLog[q][1]] = lookupResult(<<>>, nil)
        /\ \/ FoundAnswer # lookupResult(<<>>, nil)
           \/ queryLog[Len(queryLog)][1] = Registrable(Dewildcarded)

(***************************************************************************)
(* One call of checkHTTP(scanCtx, domain, address), step by step: the      *)
(* client sends a request, follows redirects through CheckRedirect, and    *)
(* the body of the final response is read and judged (http_util.go).       *)
(***************************************************************************)
MaxRedirects == 10      \* CheckRedirect: len(via) >= 10
DefaultMaxLen == 8192   \* maxLen := 8192

ProbedDomain == <<"example", "org">>

\* A body or an expected response is a string, kept as runs of equal bytes
Run(ch, n) == [ch |-> ch, n |-> n]
NoExpectation == <<>>
ExpectedResponses == {NoExpectation, <<Run("o", 2)>>, <<Run("o", 8192)>>}
Bodies ==
    { <<>>, <<Run("o", 2)>>, <<Run("o", 2), Run("x", 1)>>, <<Run("x", 2)>>,
      <<Run("o", 8191)>>, <<Run("o", 8192)>>, <<Run("o", 8193)>>, <<Run("o", 8194)>>,
      <<Run("o", 8191), Run("x", 9)>> }

RECURSIVE StrLen(_)
StrLen(b) == IF Len(b) = 0 THEN 0 ELSE Head(b).n + StrLen(Tail(b))

\* io.ReadAll(io.LimitReader(body, n)): the first n bytes
RECURSIVE LimitRead(_, _)
LimitRead(b, n) ==
    IF Len(b) = 0 \/ n <= 0 THEN <<>>
    ELSE IF Head(b).n <= n THEN <<Head(b)>> \o LimitRead(Tail(b), n - Head(b).n)
    ELSE <<Run(Head(b).ch, n)>>

\* A limit that does not grow with the expected response
maxLenFixed(expect) == DefaultMaxLen

\* Lines 218-221
maxLen(expect) == IF StrLen(expect) + 2 > DefaultMaxLen THEN StrLen(expect) + 2 ELSE DefaultMaxLen

\* The URLs a Location header may name: host, explicit port ("" if none), scheme
Target(host, port, scheme) == [host |-> host, port |-> port, scheme |-> scheme]
Targets ==
    { Target(ProbedDomain, "", "http"), Target(ProbedDomain, "443", "https"),
      Target(<<"www", "example", "org">>, "", "https"),
      Target(<<"EXAMPLE", "org">>, "", "https"),
      Target(ProbedDomain, "8080", "http"), Target(ProbedDomain, "", "ftp"),
      Target(<<"example", "org", "well-known">>, "", "http") }
NoLocation == <<>>

\* The status codes a server may answer with; the client follows the second set
\* when the response names a Location
Statuses == {199, 200, 299, 300, 404, 500}
RedirectStatuses == {301, 302}

\* The port the transport dials
DialPort(req) ==
    IF req.port # "" THEN req.port ELSE IF req.scheme = "https" THEN "443" ELSE "80"

\* scanCtx.LookupRandomHTTPRecord(host): an address of another host, or an error
OtherAddress == [fam |-> 4, reserved |-> FALSE, addr |-> "198.51.100.7"]
LookupRandomHTTPRecord(host) ==
    {[ip |-> OtherAddress, err |-> nil], [ip |-> <<>>, err |-> "lookup failed"]}

\* host = normalizeFqdn(host), on the labels of the model
normalizeHost(host) == [i \in 1..Len(host) |-> IF host[i] = "EXAMPLE" THEN "example" ELSE host[i]]

\* Lines 119-144, DialContext: the address dialed for the request's host
DialTargetAlwaysOverride(req, address, looked) == address

DialTarget(req, address, looked) ==
    IF normalizeHost(req.host) = ProbedDomain THEN address ELSE looked

\* What the transport may fail with once a connection is attempted
TransportErrors ==
    { Error("url.Error", FALSE, "connection refused"),
      Error("url.Error", TRUE, "context deadline exceeded"),
      Error("url.Error", FALSE, HTTPSMismatch) }

NoBody == [buf |-> <<>>, err |-> Error("nil", FALSE, ""), read |-> FALSE, sent |-> <<>>]

InitHttp ==
    /\ hExpect \in ExpectedResponses
    /\ hAddr \in {PublicV4, PublicV6}
    /\ hpc = "start"
    /\ hReq = NoLocation
    /\ hVia = 0
    /\ hRes = [StatusCode |-> 0, ServerHeader |-> "", InitialStatusCode |-> 0,
               NumRedirects |-> 0]
    /\ hRedirErr = ""
    /\ hDials = {}
    /\ hBody = NoBody
    /\ hProb = Problem("", "")
    /\ hLoc = NoLocation

httpIdleRest == <<checkVars, ctxVars, lookupVars, asyncVars, crashed, scanVars, nsVars, resVars,
                  extraVars>>

\* Lines 188-204: the request for http://domain/.well-known/acme-challenge/...
HttpRequestBuilt ==
    /\ hpc = "start"
    /\ hReq' = Target(ProbedDomain, "", "http")
    /\ hpc' = "request"
    /\ UNCHANGED <<hExpect, hAddr, hVia, hRes, hRedirErr, hDials, hBody, hProb, hLoc, httpIdleRest>>

\* Lines 209-213 when cl.Do returned an error
ReturnsError(err) ==
    /\ hProb' = translateHTTPError(IF hRedirErr' # "" THEN Error("redirectError", FALSE, hRedirErr')
                                   ELSE err, hAddr)
    /\ hpc' = "done"

\* Lines 137-141: the host of the request is not the domain and its lookup
\* fails; nothing is dialed and cl.Do returns the error with no response
HttpLookupFails ==
    /\ hpc = "request"
    /\ normalizeHost(hReq.host) # ProbedDomain
    /\ \E l \in LookupRandomHTTPRecord(hReq.host) :
          /\ l.err # nil
          /\ hRedirErr' = hRedirErr
          /\ ReturnsError(Error("url.Error", FALSE, l.err))
    /\ UNCHANGED <<hExpect, hAddr, hReq, hVia, hRes, hDials, hBody, hLoc, httpIdleRest>>

\* The connection is dialed and the round trip fails: cl.Do returns the error
\* with no response
HttpRoundTripFails ==
    /\ hpc = "request"
    /\ \E l \in LookupRandomHTTPRecord(hReq.host), e \in TransportErrors :
          /\ normalizeHost(hReq.host) # ProbedDomain => l.err = nil
          /\ hDials' = hDials \cup {[host |-> hReq.host, ip |-> DialTarget(hReq, hAddr, l.ip),
                                      port |-> DialPort(hReq)]}
          /\ hRedirErr' = hRedirErr
          /\ ReturnsError(e)
    /\ hVia' = hVia + 1
    /\ UNCHANGED <<hExpect, hAddr, hReq, hRes, hBody, hLoc, httpIdleRest>>

\* A redirect policy with no limit on the number of hops
CheckRedirectNoCap(req, via) ==
    IF req.port # "" /\ req.port \notin {"80", "443"} THEN "Bad port number"
    ELSE IF req.scheme \notin {"http", "https"} THEN "Bad scheme"
    ELSE IF Len(req.host) >= 2 /\ req.host[Len(req.host)] = "well-known"
    THEN "missing a trailing slash"
    ELSE ""

\* Lines 152-185, CheckRedirect(req, via): the text of the redirectError, "" for
\* nil; via counts the requests made so far
CheckRedirect(req, via) ==
    IF via >= MaxRedirects THEN "Too many redirects"
    ELSE IF req.port # "" /\ req.port \notin {"80", "443"} THEN "Bad port number"
    ELSE IF req.scheme \notin {"http", "https"} THEN "Bad scheme"
    ELSE IF Len(req.host) >= 2 /\ req.host[Len(req.host)] = "well-known"
    THEN "missing a trailing slash"
    ELSE ""

\* The connection for hReq is dialed and a response with this status arrives:
\* checkHTTPTransport.RoundTrip notes the first status (lines 81-84)
Responds(status) ==
    /\ hpc = "request"
    /\ \E l \in LookupRandomHTTPRecord(hReq.host) :
          /\ l.err = nil
          /\ hDials' = hDials \cup {[host |-> hReq.host, ip |-> DialTarget(hReq, hAddr, l.ip),
                                      port |-> DialPort(hReq)]}
    /\ hVia' = hVia + 1

NotedFirst(status) ==
    IF hRes.InitialStatusCode = 0 THEN [hRes EXCEPT !.InitialStatusCode = status] ELSE hRes

\* cl.Do returns the response without error (lines 204-208): a status the
\* client does not follow, or a redirect status without a Location
HttpFinalResponse ==
    \E status \in Statuses \cup RedirectStatuses :
        /\ Responds(status)
        /\ hRes' = [NotedFirst(status) EXCEPT !.StatusCode = status, !.ServerHeader = "nginx"]
        /\ hpc' = "body"
        /\ UNCHANGED <<hExpect, hAddr, hReq, hRedirErr, hBody, hProb, hLoc, httpIdleRest>>

\* A redirect CheckRedirect accepts: the client goes on with the new request
HttpRedirectFollowed ==
    \E status \in RedirectStatuses, loc \in Targets :
        /\ Responds(status)
        /\ CheckRedirect(loc, hVia') = ""
        /\ hRes' = [NotedFirst(status) EXCEPT !.NumRedirects = @ + 1]
        /\ hReq' = loc
        /\ hLoc' = loc
        /\ hpc' = "request"
        /\ UNCHANGED <<hExpect, hAddr, hRedirErr, hBody, hProb, httpIdleRest>>

\* A redirect CheckRedirect rejects: cl.Do returns the redirect response together
\* with the error, and lines 205-213 run
HttpRedirectRejected ==
    \E status \in RedirectStatuses, loc \in Targets :
        /\ Responds(status)
        /\ CheckRedirect(loc, hVia') # ""
        /\ hRedirErr' = CheckRedirect(loc, hVia')
        /\ hRes' = [NotedFirst(status) EXCEPT !.NumRedirects = @ + 1, !.StatusCode = status,
                                              !.ServerHeader = "nginx"]
        /\ ReturnsError(Error("url.Error", FALSE, hRedirErr'))
        /\ hLoc' = loc
        /\ UNCHANGED <<hExpect, hAddr, hReq, hBody, httpIdleRest>>

\* The nil error of a read
NoError == Error("nil", FALSE, "")

\* A verdict that looks at the status code also when a response is expected
VerdictStatusFirst(expect, status, buf, err, address) ==
    IF (status > 299 \/ status < 200) /\ status # 404
    THEN Problem("UnexpectedHttpResponse", SeverityWarning)
    ELSE IF expect # NoExpectation /\ buf # expect
    THEN translateHTTPError(Error("error", FALSE, "\""), address)
    ELSE Problem("", "")

\* A verdict for which 404 is as unexpected as any other status outside 2xx
VerdictNotFoundWarns(expect, status, buf, err, address) ==
    IF expect # NoExpectation
    THEN IF err # NoError THEN translateHTTPError(Wrapping(err), address)
         ELSE IF buf # expect THEN translateHTTPError(Error("error", FALSE, "\""), address)
         ELSE Problem("", "")
    ELSE IF err = NoError
         THEN IF status > 299 \/ status < 200
              THEN Problem("UnexpectedHttpResponse", SeverityWarning)
              ELSE Problem("", "")
         ELSE translateHTTPError(Wrapping(err), address)

\* Lines 227-253: the Problem for the final response
Verdict(expect, status, buf, err, address) ==
    IF expect # NoExpectation
    THEN IF err # NoError THEN translateHTTPError(Wrapping(err), address)
         ELSE IF buf # expect THEN translateHTTPError(Error("error", FALSE, "\""), address)
         ELSE Problem("", "")
    ELSE IF err = NoError
         THEN IF (status > 299 \/ status < 200) /\ status # 404
              THEN Problem("UnexpectedHttpResponse", SeverityWarning)
              ELSE Problem("", "")
         ELSE translateHTTPError(Wrapping(err), address)

ReadErrors == {NoError, Error("error", FALSE, "unexpected EOF"),
               Error("error", TRUE, "context deadline exceeded")}

\* Lines 216-253: the body is read through the LimitReader, completely or up to
\* a read error, and the response judged
HttpBodyRead ==
    /\ hpc = "body"
    /\ \E body \in Bodies, err \in ReadErrors :
          /\ hBody' = [buf |-> IF err = NoError THEN LimitRead(body, maxLen(hExpect)) ELSE <<>>,
                       err |-> err, read |-> TRUE, sent |-> body]
          /\ hProb' = Verdict(hExpect, hRes.StatusCode, hBody'.buf, err, hAddr)
    /\ hpc' = "done"
    /\ UNCHANGED <<hExpect, hAddr, hReq, hVia, hRes, hRedirErr, hDials, hLoc, httpIdleRest>>

NextHttp ==
    \/ HttpRequestBuilt
    \/ HttpLookupFails
    \/ HttpRoundTripFails
    \/ HttpFinalResponse
    \/ HttpRedirectFollowed
    \/ HttpRedirectRejected
    \/ HttpBodyRead

HttpInit ==
    InitHttp /\ IdleCheck /\ IdleLookup /\ IdleAsync /\ IdleScans /\ IdleNS /\ IdleRes /\ IdleExtra
            /\ rrs = <<>> /\ queryLog = <<>> /\ crashed = FALSE

SpecHTTP == HttpInit /\ [][NextHttp]_vars

NoProblem == Problem("", "")

OkStatus(status) == (status >= 200 /\ status <= 299) \/ status = 404

\* C16 as claimed: with no expected response configured the verdict of checkHTTP
\* for a final response depends on its status code only: none for 2xx and 404,
\* else exactly the Warning UnexpectedHttpResponse.
C16_VerdictByStatusOnly ==
    (hpc = "done" /\ hExpect = NoExpectation /\ hBody.read) =>
        hProb = IF OkStatus(hRes.StatusCode) THEN NoProblem
                ELSE Problem("UnexpectedHttpResponse", SeverityWarning)

\* C16 amended: ... and the body of the final response was read without error ...
C16_VerdictByStatus ==
    (hpc = "done" /\ hExpect = NoExpectation /\ hBody.read /\ hBody.err = NoError) =>
        hProb = IF OkStatus(hRes.StatusCode) THEN NoProblem
                ELSE Problem("UnexpectedHttpResponse", SeverityWarning)

\* A 404 after a followed redirect, judged fine
C16_Witness ==
    /\ hpc = "done" /\ hExpect = NoExpectation /\ hBody.read /\ hBody.err = NoError
    /\ hRes.StatusCode = 404 /\ hRes.NumRedirects = 1
    /\ hProb = NoProblem

\* C17: the client sends at most 10 requests in one checkHTTP call; a redirect
\* is refused for the length of the chain only when it would start the 11th, and
\* then checkHTTP returns the Error BadRedirect.
C17_RedirectCap ==
    /\ hVia <= MaxRedirects
    /\ hpc = "request" => hVia < MaxRedirects
    /\ hRedirErr = "Too many redirects" =>
          /\ hVia = MaxRedirects
          /\ hpc = "done"
          /\ hProb = Problem("BadRedirect", SeverityError)

C17_Witness ==
    /\ hpc = "done"
    /\ hRedirErr = "Too many redirects"
    /\ hVia = MaxRedirects
    /\ hRes.NumRedirects = MaxRedirects
    /\ hProb = Problem("BadRedirect", SeverityError)

\* A redirect target the policy forbids: an explicit port other than 80 and 443,
\* a scheme other than http and https, or a host name ending in .well-known
Forbidden(loc) ==
    \/ loc.port \notin {"", "80", "443"}
    \/ loc.scheme \notin {"http", "https"}
    \/ loc.host[Len(loc.host)] = "well-known"

\* C29: whenever the client receives a redirect within the hop limit, a forbidden
\* target ends the call with the Problem BadRedirect and nothing more is dialed,
\* while any other target becomes the next request; once checkHTTP has returned
\* no connection is dialed.
C29_RedirectPolicy ==
    [][/\ (hRes'.NumRedirects = hRes.NumRedirects + 1 /\ hVia' < MaxRedirects) =>
            IF Forbidden(hLoc')
            THEN /\ hpc' = "done"
                 /\ hProb' = Problem("BadRedirect", SeverityError)
                 /\ hReq' = hReq
            ELSE /\ hpc' = "request"
                 /\ hReq' = hLoc'
                 /\ hProb' = hProb
       /\ hpc = "done" => hDials' = hDials]_vars

\* The first response redirects to port 8080 and the call ends after one dial
C29_Witness ==
    /\ hpc = "done"
    /\ hVia = 1
    /\ hLoc = Target(ProbedDomain, "8080", "http")
    /\ hProb = Problem("BadRedirect", SeverityError)
    /\ Cardinality(hDials) = 1

C18_ExpectedBodyVerdict ==
    (hpc = "done" /\ hExpect # NoExpectation /\ hBody.read) =>
        IF hBody.err # NoError \/ hBody.sent # hExpect
        THEN hProb.Severity = SeverityError
        ELSE hProb = NoProblem

\* A body one byte longer than a long expected response is told apart from it
C18_Witness ==
    /\ hpc = "done" /\ hBody.read /\ hBody.err = NoError
    /\ hExpect = <<Run("o", 8192)>>
    /\ hBody.sent = <<Run("o", 8193)>>
    /\ hProb.Severity = SeverityError

(***************************************************************************)
(* nameServerOutOfSyncChecker.Check from the point where every direct TXT  *)
(* query has answered (part_009:373): the answers are compared             *)
(***************************************************************************)
\* The nameservers of the domain and the addresses each may have
NSHostnames == {"ns1.example.org", "ns2.example.org"}
NSAddresses(h) ==
    IF h = "ns1.example.org" THEN {"192.0.2.1", "2001:db8::1"}
                             ELSE {"192.0.2.2", "2001:db8::2"}

\* The strings of a TXT answer; a string is kept as its rank in sort.Strings order
TXTAnswers == {<<>>, <<1>>, <<2>>, <<1, 2>>, <<2, 1>>, <<1, 1>>}

\* sort.Strings
RECURSIVE Insert(_, _)
Insert(v, sorted) ==
    IF Len(sorted) = 0 THEN <<v>>
    ELSE IF v <= Head(sorted) THEN <<v>> \o sorted
    ELSE <<Head(sorted)>> \o Insert(v, Tail(sorted))
RECURSIVE SortStrings(_)
SortStrings(a) == IF Len(a) = 0 THEN <<>> ELSE Insert(Head(a), SortStrings(Tail(a)))

\* part_009:429-447
sliceContainsSameValues(a, b) ==
    IF Len(a) # Len(b) THEN FALSE
    ELSE IF Len(a) = 0 THEN TRUE
    ELSE \A i \in 1..Len(a) : SortStrings(b)[i] = SortStrings(a)[i]

\* The orders in which a range over a map with these keys may visit them
Orders(keys) == {f \in [1..Cardinality(keys) -> keys] : \A i, j \in DOMAIN f : f[i] = f[j] => i = j}

\* Lines 387-411, the loop over ns.Records from its i-th entry on; st holds
\* lastIP, lastRecords, actuallyHasRecords and whether a mismatch was returned
RECURSIVE RangeRecords(_, _, _, _)
RangeRecords(records, order, i, st) ==
    IF i > Len(order) \/ st.mismatch THEN st
    ELSE LET ip == order[i]
             recs == records[ip]
         IN  IF st.lastIP = ""
             THEN RangeRecords(records, order, i + 1,
                               [st EXCEPT !.lastIP = ip, !.lastRecords = recs])
             ELSE LET has == st.actuallyHasRecords \/ Len(recs) > 0
                  IN  IF ~sliceContainsSameValues(st.lastRecords, recs)
                      THEN [st EXCEPT !.actuallyHasRecords = has, !.mismatch = TRUE]
                      ELSE RangeRecords(records, order, i + 1,
                                        [st EXCEPT !.actuallyHasRecords = has,
                                                   !.lastIP = ip, !.lastRecords = recs])

\* Lines 377-412, the loop over nameServers from its k-th entry on; ipOrder gives
\* for each nameserver the order its Records are visited in
RECURSIVE RangeNameServers(_, _, _, _, _)
RangeNameServers(servers, nsOrder, ipOrder, k, st) ==
    IF k > Len(nsOrder) \/ st.mismatch THEN st
    ELSE IF st.lastNameServer = ""
    THEN RangeNameServers(servers, nsOrder, ipOrder, k + 1,
                          [st EXCEPT !.lastNameServer = nsOrder[k]])
    ELSE LET ns == nsOrder[k]
             inner == RangeRecords(servers[ns], ipOrder[ns], 1,
                                   [st EXCEPT !.lastIP = "", !.lastRecords = <<>>])
         IN  RangeNameServers(servers, nsOrder, ipOrder, k + 1, inner)

\* Lines 373-424: what Check returns for the collected answers
CompareAnswers(servers, nsOrder, ipOrder) ==
    LET st == RangeNameServers(servers, nsOrder, ipOrder, 1,
                 [lastNameServer |-> "", lastIP |-> "", lastRecords |-> <<>>,
                  actuallyHasRecords |-> FALSE, mismatch |-> FALSE])
    IN  IF st.mismatch THEN <<Problem("NSOutOfSync", SeverityWarning)>>
        ELSE IF ~st.actuallyHasRecords THEN <<debugProblem("NSOutOfSync")>>
        ELSE <<>>

\* The state at line 373: each nameserver's Records hold the TXT strings every
\* one of its addresses answered with
InitNS ==
    /\ nameServers \in
          [NSHostnames -> UNION {[ips -> TXTAnswers] : ips \in SUBSET {"192.0.2.1", "2001:db8::1",
                                                                     "192.0.2.2", "2001:db8::2"}}]
    /\ \A h \in NSHostnames : DOMAIN nameServers[h] \subseteq NSAddresses(h)
    /\ nspc = "compare"
    /\ nsProbs = <<>>

\* Lines 373-424
NSAnswersCompared ==
    /\ nspc = "compare"
    /\ \E nsOrder \in Orders(NSHostnames) :
       \E ipOrder \in [NSHostnames -> UNION {Orders(DOMAIN nameServers[h]) : h \in NSHostnames}] :
          /\ \A h \in NSHostnames : ipOrder[h] \in Orders(DOMAIN nameServers[h])
          /\ nsProbs' = CompareAnswers(nameServers, nsOrder, ipOrder)
    /\ nspc' = "done"
    /\ UNCHANGED <<nameServers, checkVars, ctxVars, lookupVars, asyncVars, crashed,
                   scanVars, httpVars, resVars, extraVars>>

NextNS == NSAnswersCompared

NSInit ==
    InitNS /\ IdleCheck /\ IdleLookup /\ IdleAsync /\ IdleScans /\ IdleHttp /\ IdleRes /\ IdleExtra
          /\ rrs = <<>> /\ queryLog = <<>> /\ crashed = FALSE

SpecNS == NSInit /\ [][NextNS]_vars

\* The TXT strings of an answer, as a set
StringSet(recs) == {recs[i] : i \in 1..Len(recs)}

\* C19: if the TXT answers two different nameservers of the domain gave differ as
\* record sets, nameServerOutOfSyncChecker.Check returns the Warning NSOutOfSync.
C19_DisagreementReported ==
    (/\ nspc = "done"
     /\ \E h1, h2 \in NSHostnames :
          /\ h1 # h2
          /\ \E ip1 \in DOMAIN nameServers[h1], ip2 \in DOMAIN nameServers[h2] :
                StringSet(nameServers[h1][ip1]) # StringSet(nameServers[h2][ip2]))
    => nsProbs = <<Problem("NSOutOfSync", SeverityWarning)>>

\* The answers of all queried nameserver addresses
AllAnswers == UNION {{nameServers[h][ip] : ip \in DOMAIN nameServers[h]} : h \in NSHostnames}

\* The note that is not the Warning: No TXT records for _acme-challenge
NoTXTNoted == nsProbs # <<>> /\ nsProbs[1].Severity # SeverityWarning

MaxNS == 3

\* rrTypes := []uint16{dns.TypeA, dns.TypeAAAA}
rrTypes == <<"A", "AAAA">>

\* count := len(rrTypes) + len(nameSeverRRs)
Stage1Count(n) == Len(rrTypes) + n

\* The loops over rrTypes and nameSeverRRs: one goroutine per pair
Stage1Goroutines(n) == {<<1, i>> : i \in 1..(Len(rrTypes) * n)}

\* One goroutine per address of a nameserver
Stage2Goroutines(ips) == {<<2, i>> : i \in 1..ips}

\* How many addresses a successful lookup of goroutine g adds: the A lookups
\* come first and give one address, the AAAA lookups one if there is one.
IPsOf(g) == IF g[2] <= fNS \/ fDual THEN 1 ELSE 0

Sending == {"sendErr", "sendOk"}

InitFanout ==
    /\ fNS \in 1..MaxNS
    /\ fDual \in BOOLEAN
    /\ fpc = "start"
    /\ fwg = 0
    /\ fg = <<>>
    /\ fw = <<"idle", "idle">>
    /\ fclosed = <<FALSE, FALSE>>
    /\ fIPs = 0
    /\ fPanic = ""

fanIdleRest == <<checkVars, ctxVars, lookupVars, asyncVars, crashed, scanVars, httpVars, nsVars,
                 resVars, sortVars, normVars, webVars>>

\* wg.Add(count), the goroutine that waits, and the goroutines of the stage
FanStage1 ==
    /\ fPanic = ""
    /\ fpc = "start"
    /\ fwg' = fwg + Stage1Count(fNS)
    /\ fw' = [fw EXCEPT ![1] = "wait"]
    /\ fg' = [g \in Stage1Goroutines(fNS) |-> "run"]
    /\ fpc' = "recv1"
    /\ UNCHANGED <<fNS, fDual, fclosed, fIPs, fPanic, fanIdleRest>>

\* A goroutine's lookup (ctx.Lookup or the direct TXT query) returns, with an
\* error or without, and the goroutine arrives at its send
FanLookup(g) ==
    /\ fPanic = ""
    /\ g \in DOMAIN fg
    /\ fg[g] = "run"
    /\ \E to \in Sending : fg' = [fg EXCEPT ![g] = to]
    /\ UNCHANGED <<fNS, fDual, fpc, fwg, fw, fclosed, fIPs, fPanic, fanIdleRest>>

\* for x := range chan: Check receives what g sends; an Error makes it return
FanReceive(g) ==
    /\ fPanic = ""
    /\ g \in DOMAIN fg
    /\ fg[g] \in Sending
    /\ fpc = (IF g[1] = 1 THEN "recv1" ELSE "recv2")
    /\ ~fclosed[g[1]]
    /\ fg' = [fg EXCEPT ![g] = "signal"]
    /\ IF fg[g] = "sendErr"
       THEN fpc' = "returned" /\ fIPs' = fIPs
       ELSE fpc' = fpc /\ fIPs' = (IF g[1] = 1 THEN fIPs + IPsOf(g) ELSE fIPs)
    /\ UNCHANGED <<fNS, fDual, fwg, fw, fclosed, fPanic, fanIdleRest>>

\* A send on a channel that was closed meanwhile
FanSendClosed(g) ==
    /\ fPanic = ""
    /\ g \in DOMAIN fg
    /\ fg[g] \in Sending
    /\ fclosed[g[1]]
    /\ fPanic' = "send on closed channel"
    /\ UNCHANGED <<fNS, fDual, fpc, fwg, fg, fw, fclosed, fIPs, fanIdleRest>>

\* wg.Done(): a counter below zero panics
FanDoneCounted(g) ==
    /\ fwg' = fwg - 1
    /\ fPanic' = (IF fwg - 1 < 0 THEN "sync: negative WaitGroup counter" ELSE fPanic)

FanDone(g) ==
    /\ fPanic = ""
    /\ g \in DOMAIN fg
    /\ fg[g] = "signal"
    /\ FanDoneCounted(g)
    /\ fg' = [fg EXCEPT ![g] = "done"]
    /\ UNCHANGED <<fNS, fDual, fpc, fw, fclosed, fIPs, fanIdleRest>>

\* wg.Wait() returns once the counter is zero
FanWait(k) ==
    /\ fPanic = ""
    /\ fw[k] = "wait"
    /\ fwg = 0
    /\ fw' = [fw EXCEPT ![k] = "close"]
    /\ UNCHANGED <<fNS, fDual, fpc, fwg, fg, fclosed, fIPs, fPanic, fanIdleRest>>

\* close(chanNSIP), close(chanNSRec)
FanClose(k) ==
    /\ fPanic = ""
    /\ fw[k] = "close"
    /\ fclosed' = [fclosed EXCEPT ![k] = TRUE]
    /\ fw' = [fw EXCEPT ![k] = "done"]
    /\ UNCHANGED <<fNS, fDual, fpc, fwg, fg, fIPs, fPanic, fanIdleRest>>

\* The range over chanNSIP ends; count is the number of addresses, wg.Add(count),
\* the goroutine that waits, and one goroutine per address
FanStage2 ==
    /\ fPanic = ""
    /\ fpc = "recv1"
    /\ fclosed[1]
    /\ fwg' = fwg + fIPs
    /\ fw' = [fw EXCEPT ![2] = "wait"]
    /\ fg' = [g \in DOMAIN fg \cup Stage2Goroutines(fIPs) |->
                IF g \in DOMAIN fg THEN fg[g] ELSE "run"]
    /\ fpc' = "recv2"
    /\ UNCHANGED <<fNS, fDual, fclosed, fIPs, fPanic, fanIdleRest>>

\* The range over chanNSRec ends; the answers are compared and Check returns
FanCompared ==
    /\ fPanic = ""
    /\ fpc = "recv2"
    /\ fclosed[2]
    /\ fpc' = "compared"
    /\ UNCHANGED <<fNS, fDual, fwg, fg, fw, fclosed, fIPs, fPanic, fanIdleRest>>

AllGoroutines == Stage1Goroutines(MaxNS) \cup Stage2Goroutines(Len(rrTypes) * MaxNS)

NextFanout ==
    \/ FanStage1
    \/ \E g \in AllGoroutines : FanLookup(g)
    \/ \E g \in AllGoroutines : FanReceive(g)
    \/ \E g \in AllGoroutines : FanSendClosed(g)
    \/ \E g \in AllGoroutines : FanDone(g)
    \/ \E k \in 1..2 : FanWait(k)
    \/ \E k \in 1..2 : FanClose(k)
    \/ FanStage2
    \/ FanCompared

FanoutInit ==
    InitFanout /\ IdleCheck /\ IdleLookup /\ IdleAsync /\ IdleScans /\ IdleHttp /\ IdleNS
               /\ IdleRes /\ IdleSort /\ IdleNorm /\ IdleWeb
               /\ rrs = <<>> /\ queryLog = <<>> /\ crashed = FALSE

SpecFanout == FanoutInit /\ [][NextFanout]_vars

\* Check has returned
FanReturned == fpc \in {"returned", "compared"}

\* No lookup has reported an error
NoLookupError == fpc # "returned" /\ \A g \in DOMAIN fg : fg[g] # "sendErr"

\* Check waits at a channel that nothing will send on or close
FanStuck ==
    /\ fpc \in {"recv1", "recv2"}
    /\ \A g \in DOMAIN fg : fg[g] = "done"
    /\ \E k \in 1..2 : fw[k] = "wait" /\ fwg > 0

\* C34: each stage registers one unit of wg per goroutine it launches, so that,
\* whatever the number of NS records, when no lookup reports an error Check
\* neither waits forever at a channel nor ends in a panic.
C34_FanInCompletes ==
    NoLookupError => fPanic = "" /\ ~FanStuck

\* After Check has returned, a goroutine is blocked in a send on a channel that
\* is neither read nor closed any more
FanLeaked ==
    /\ FanReturned
    /\ \E g \in DOMAIN fg : fg[g] \in Sending /\ ~fclosed[g[1]]

\* C35: on every return path of Check, the early returns included, no goroutine
\* it launched stays blocked in a send on a channel that is no longer read.
C35_NoGoroutineLeft == ~FanLeaked

(***************************************************************************)
(* The tests table of the web service: a test is inserted as Queued, the   *)
(* listener hands its notification to a worker, the worker marks it        *)
(* Processing and then Complete, and the vacuum loop cancels old tests.    *)
(***************************************************************************)
NumTests == 2
NumWorkers == 2

Tests == 1..NumTests
Workers == 1..NumWorkers

\* UPDATE tests SET status = to WHERE id = id
UpdateStatus(table, id, to) == [table EXCEPT ![id] = to]

\* UPDATE tests set status = 'Cancelled' WHERE status NOT IN ('Cancelled',
\* 'Complete') AND created_at < now() - interval
VacuumUpdate(table, old) ==
    [t \in Tests |->
        IF table[t] \in {"Queued", "Processing"} /\ old[t] THEN "Cancelled" ELSE table[t]]

InitWeb ==
    /\ tStatus = [t \in Tests |-> "none"]
    /\ tOld = [t \in Tests |-> FALSE]
    /\ notifyQ = <<>>
    /\ wkReq = [w \in Workers |-> 0]
    /\ wkPc = [w \in Workers |-> "idle"]

webIdleRest == <<checkVars, ctxVars, lookupVars, asyncVars, crashed, scanVars, httpVars, nsVars,
                 resVars, sortVars, normVars, fanVars>>

\* INSERT INTO tests (..., status, ...) VALUES (..., 'Queued', ...); the trigger
\* notifies tests_events
TestSubmitted(t) ==
    /\ tStatus[t] = "none"
    /\ tStatus' = UpdateStatus(tStatus, t, "Queued")
    /\ notifyQ' = Append(notifyQ, t)
    /\ UNCHANGED <<tOld, wkReq, wkPc, webIdleRest>>

\* s.workCh <- notification, received by a worker in for req := range s.workCh
NotificationDispatched(w) ==
    /\ Len(notifyQ) > 0
    /\ wkPc[w] = "idle"
    /\ wkReq' = [wkReq EXCEPT ![w] = Head(notifyQ)]
    /\ notifyQ' = Tail(notifyQ)
    /\ wkPc' = [wkPc EXCEPT ![w] = "start"]
    /\ UNCHANGED <<tStatus, tOld, webIdleRest>>

\* The worker marks the test Processing; a failure of Exec is ignored
WorkStarted(w) ==
    /\ wkPc[w] = "start"
    /\ \E ok \in BOOLEAN :
          tStatus' = (IF ok THEN UpdateStatus(tStatus, wkReq[w], "Processing") ELSE tStatus)
    /\ wkPc' = [wkPc EXCEPT ![w] = "check"]
    /\ UNCHANGED <<tOld, notifyQ, wkReq, webIdleRest>>

\* CheckWithOptions has returned and the worker stores the result
WorkCompleted(w) ==
    /\ wkPc[w] = "check"
    /\ \E ok \in BOOLEAN :
          tStatus' = (IF ok THEN UpdateStatus(tStatus, wkReq[w], "Complete") ELSE tStatus)
    /\ wkPc' = [wkPc EXCEPT ![w] = "idle"]
    /\ wkReq' = [wkReq EXCEPT ![w] = 0]
    /\ UNCHANGED <<tOld, notifyQ, webIdleRest>>

\* Time passes: created_at of the test now lies before the vacuum's interval
TestAges(t) ==
    /\ tStatus[t] # "none"
    /\ ~tOld[t]
    /\ tOld' = [tOld EXCEPT ![t] = TRUE]
    /\ UNCHANGED <<tStatus, notifyQ, wkReq, wkPc, webIdleRest>>

\* One round of the vacuum loop
TestsVacuumed ==
    /\ tStatus' = VacuumUpdate(tStatus, tOld)
    /\ UNCHANGED <<tOld, notifyQ, wkReq, wkPc, webIdleRest>>

NextWeb ==
    \/ \E t \in Tests : TestSubmitted(t)
    \/ \E w \in Workers : NotificationDispatched(w)
    \/ \E w \in Workers : WorkStarted(w)
    \/ \E w \in Workers : WorkCompleted(w)
    \/ \E t \in Tests : TestAges(t)
    \/ TestsVacuumed

WebInit ==
    InitWeb /\ IdleCheck /\ IdleLookup /\ IdleAsync /\ IdleScans /\ IdleHttp /\ IdleNS
            /\ IdleRes /\ IdleSort /\ IdleNorm /\ IdleFan
            /\ rrs = <<>> /\ queryLog = <<>> /\ crashed = FALSE

SpecWeb == WebInit /\ [][NextWeb]_vars

\* C38: the status of a test only moves forward: once a row is Cancelled or
\* Complete its status never changes again, however the worker that processes
\* the test and the vacuum loop interleave.
C38_FinalStatusStays ==
    [][\A t \in Tests :
          tStatus[t] \in {"Cancelled", "Complete"} => tStatus'[t] = tStatus[t]]_vars

(***************************************************************************)
(* One call of lookup(name, rrType): lookupWithTimeout resolves in a       *)
(* goroutine and waits for the answer or the timer, lookupRaw judges the   *)
(* result, lookup hands the records on (dns_util.go:34-89)                 *)
(***************************************************************************)
RcodeSuccess == "NOERROR"
RcodeNameError == "NXDOMAIN"
RcodeServerFailure == "SERVFAIL"
RcodeRefused == "REFUSED"

\* unbound.Result, as far as lookupRaw and lookup read it
UnboundResult(rr, rcode, bogus) == [Rr |-> rr, Rcode |-> rcode, Bogus |-> bogus]
NilResult == [Rr |-> <<>>, Rcode |-> "", Bogus |-> FALSE]

RecordLists ==
    { <<>>, <<RRA(PublicV4)>>, <<RRCNAME, RRA(PublicV4)>>,
      <<RRA(ReservedV4), RRA(PublicV4)>>, <<RRA(PublicV4), RRA(ReservedV4)>> }

\* What ub.Resolve may return: a result and an error
UnboundAnswers ==
    { [result |-> UnboundResult(rr, rcode, bogus), err |-> nil] :
        rr \in RecordLists,
        rcode \in {RcodeSuccess, RcodeNameError, RcodeServerFailure, RcodeRefused},
        bogus \in BOOLEAN }
    \cup {[result |-> NilResult, err |-> "resolve failed"]}

ErrTimeout == "could not be resolved within the timeout"
ErrBogus == "had fatal DNSSEC issues"
ErrRcode == "did not have an acceptable response code"

NotReturned == [result |-> NilResult, err |-> nil, returned |-> FALSE]
Returned(result, err) == [result |-> result, err |-> err, returned |-> TRUE]

InitRes ==
    /\ ubAnswer \in UnboundAnswers
    /\ rpc = "start"
    /\ rgo = "idle"
    /\ rChan = <<>>
    /\ rTimed = NotReturned
    /\ rRaw = NotReturned
    /\ rOut = [rrs |-> <<>>, err |-> nil, returned |-> FALSE]

resIdleRest == <<checkVars, ctxVars, lookupVars, asyncVars, crashed, scanVars, httpVars, nsVars,
                 extraVars>>

\* Lines 75-81: the channel is made and the goroutine started
ResolveStarted ==
    /\ rpc = "start"
    /\ rgo' = "resolving"
    /\ rpc' = "select"
    /\ UNCHANGED <<ubAnswer, rChan, rTimed, rRaw, rOut, resIdleRest>>

\* Lines 79-80: ub.Resolve returns and the goroutine sends on resultChan, which
\* has room for it
ResolveAnswers ==
    /\ rgo = "resolving"
    /\ Len(rChan) < 1
    /\ rChan' = Append(rChan, ubAnswer)
    /\ rgo' = "done"
    /\ UNCHANGED <<ubAnswer, rpc, rTimed, rRaw, rOut, resIdleRest>>

\* Lines 84-85: case res := <-resultChan
SelectReceives ==
    /\ rpc = "select"
    /\ Len(rChan) > 0
    /\ rTimed' = Returned(Head(rChan).result, Head(rChan).err)
    /\ rChan' = Tail(rChan)
    /\ rpc' = "raw"
    /\ UNCHANGED <<ubAnswer, rgo, rRaw, rOut, resIdleRest>>

\* Lines 86-87: case <-time.After(timeout)
SelectTimesOut ==
    /\ rpc = "select"
    /\ rTimed' = Returned(NilResult, ErrTimeout)
    /\ rpc' = "raw"
    /\ UNCHANGED <<ubAnswer, rgo, rChan, rRaw, rOut, resIdleRest>>

\* A judgement that looks at the response code before the DNSSEC status
JudgeRcodeFirst(result) ==
    IF result.Rcode = RcodeServerFailure \/ result.Rcode = RcodeRefused THEN ErrRcode
    ELSE IF result.Bogus THEN ErrBogus
    ELSE nil

\* Lines 50-66: the error lookupRaw returns for a result it received
Judge(result) ==
    IF result.Bogus THEN ErrBogus
    ELSE IF result.Rcode = RcodeServerFailure \/ result.Rcode = RcodeRefused THEN ErrRcode
    ELSE nil

\* Lines 45-66: lookupRaw
LookupRawReturns ==
    /\ rpc = "raw"
    /\ rRaw' = IF rTimed.err # nil THEN Returned(NilResult, rTimed.err)
               ELSE Returned(rTimed.result, Judge(rTimed.result))
    /\ rpc' = "lookup"
    /\ UNCHANGED <<ubAnswer, rgo, rChan, rTimed, rOut, resIdleRest>>

\* Lines 35-40: lookup
LookupReturns ==
    /\ rpc = "lookup"
    /\ rOut' = IF rRaw.err # nil THEN [rrs |-> <<>>, err |-> rRaw.err, returned |-> TRUE]
               ELSE [rrs |-> rRaw.result.Rr, err |-> nil, returned |-> TRUE]
    /\ rpc' = "done"
    /\ UNCHANGED <<ubAnswer, rgo, rChan, rTimed, rRaw, resIdleRest>>

NextRes ==
    \/ ResolveStarted
    \/ ResolveAnswers
    \/ SelectReceives
    \/ SelectTimesOut
    \/ LookupRawReturns
    \/ LookupReturns

ResInit ==
    InitRes /\ IdleCheck /\ IdleLookup /\ IdleAsync /\ IdleScans /\ IdleHttp /\ IdleNS /\ IdleExtra
           /\ rrs = <<>> /\ queryLog = <<>> /\ crashed = FALSE

SpecResolve == ResInit /\ [][NextRes]_vars

\* No answer arrived before the timer fired
TimedOut == rTimed.returned /\ rTimed.err = ErrTimeout

\* C20: lookup returns an error and no records if the resolver call failed, no
\* answer arrived before the timeout, the result is Bogus (told before the
\* response code is looked at) or the response code is SERVFAIL or REFUSED;
\* otherwise it returns the resolver's records in their order with a nil error.
C20_LookupOutcome ==
    rpc = "done" =>
        IF TimedOut THEN rOut.err = ErrTimeout /\ rOut.rrs = <<>>
        ELSE IF ubAnswer.err # nil THEN rOut.err = ubAnswer.err /\ rOut.rrs = <<>>
        ELSE IF ubAnswer.result.Bogus THEN rOut.err = ErrBogus /\ rOut.rrs = <<>>
        ELSE IF ubAnswer.result.Rcode \in {RcodeServerFailure, RcodeRefused}
        THEN rOut.err = ErrRcode /\ rOut.rrs = <<>>
        ELSE rOut.err = nil /\ rOut.rrs = ubAnswer.result.Rr

\* A Bogus SERVFAIL answer with records, received in time
C20_Witness ==
    /\ rpc = "done"
    /\ ~TimedOut
    /\ ubAnswer.err = nil
    /\ ubAnswer.result.Bogus
    /\ ubAnswer.result.Rcode = RcodeServerFailure
    /\ Len(ubAnswer.result.Rr) = 2
    /\ rOut.err = ErrBogus

(***************************************************************************)
(* problems.Less, the order sort.Sort(rv.Problems) sorts a stored result's *)
(* Problems by before display (web, part_005:23-59)                        *)
(***************************************************************************)
MaxSortLen == 2     \* length of the list of Problems handed to the sort

SeverityInfo == "Info"

Severities == {SeverityFatal, SeverityError, SeverityWarning, SeverityInfo, SeverityDebug}

\* Problem names in ascending order of Go's string comparison
SortNames == <<"CAAIssuanceNotAllowed", "DNSLookupFailed">>

\* p1.Name < p2.Name
NameLess(n1, n2) ==
    \E a, b \in 1..Len(SortNames) : SortNames[a] = n1 /\ SortNames[b] = n2 /\ a < b

SortableProblems ==
    {Problem(SortNames[n], s) : n \in 1..Len(SortNames), s \in Severities}

Less(ps, i, j) ==
    LET p1 == ps[i]
        p2 == ps[j]
        naturalOrder == NameLess(p1.Name, p2.Name)
    IN  IF p1.Severity = p2.Severity THEN naturalOrder
        ELSE IF p1.Severity = SeverityDebug THEN FALSE
        ELSE IF p1.Severity = SeverityFatal THEN TRUE
        ELSE IF p1.Severity = SeverityError /\ p2.Severity # SeverityFatal THEN TRUE
        ELSE IF /\ p1.Severity = SeverityWarning
                /\ p2.Severity # SeverityError /\ p2.Severity # SeverityFatal THEN TRUE
        ELSE naturalOrder

InitSort ==
    /\ sortProbs \in [1..MaxSortLen -> SortableProblems]
    /\ lessAsked = {}
    /\ lessTrue = {}

\* probs.Less(i, j), called by the sort with any two indices
LessCalled(i, j) ==
    /\ <<i, j>> \notin lessAsked
    /\ lessAsked' = lessAsked \cup {<<i, j>>}
    /\ lessTrue' = IF Less(sortProbs, i, j) THEN lessTrue \cup {<<i, j>>} ELSE lessTrue
    /\ UNCHANGED <<sortProbs, checkVars, ctxVars, lookupVars, asyncVars, crashed,
                   scanVars, httpVars, nsVars, resVars, normVars, laterVars>>

NextSort == \E i, j \in 1..Len(sortProbs) : LessCalled(i, j)

SortInit ==
    InitSort /\ IdleCheck /\ IdleLookup /\ IdleAsync /\ IdleScans /\ IdleHttp /\ IdleNS /\ IdleRes
             /\ IdleNorm /\ IdleLater
             /\ rrs = <<>> /\ queryLog = <<>> /\ crashed = FALSE

SpecSort == SortInit /\ [][NextSort]_vars

\* How bad a severity is: Fatal, then Error, then Warning, then Info, Debug last.
Badness(s) ==
    CASE s = SeverityFatal -> 4
      [] s = SeverityError -> 3
      [] s = SeverityWarning -> 2
      [] s = SeverityInfo -> 1
      [] OTHER -> 0

\* C21: for two Problems of different severity, once Less has been asked both ways
\* round, exactly one of Less(a, b) and Less(b, a) was true, the one with the worse
\* severity first; and Less(a, a) is never true.
C21_LessStrictTotalOrder ==
    \A i, j \in 1..Len(sortProbs) :
        /\ <<i, i>> \in lessAsked => <<i, i>> \notin lessTrue
        /\ (/\ <<i, j>> \in lessAsked /\ <<j, i>> \in lessAsked
            /\ sortProbs[i].Severity # sortProbs[j].Severity)
           => /\ (<<i, j>> \in lessTrue) # (<<j, i>> \in lessTrue)
              /\ (<<i, j>> \in lessTrue) <=>
                    (Badness(sortProbs[i].Severity) > Badness(sortProbs[j].Severity))

(***************************************************************************)
(* Check and the domain it hands to its checkers: the argument is          *)
(* normalised once (letsdebug.go:24) and every checker of the loop gets    *)
(* the variable domain (letsdebug.go:26-27)                                *)
(***************************************************************************)
MaxNameLen == 4     \* longest domain argument, in characters

Whitespace == {" ", "\t"}

NameChars == {" ", ".", "a", "A"}

\* strings.TrimSpace
TrimSpace(name) == TrimRight(TrimLeft(name))

\* strings.TrimSuffix(name, ".")
TrimSuffixDot(name) ==
    IF Len(name) > 0 /\ name[Len(name)] = "." THEN SubSeq(name, 1, Len(name) - 1) ELSE name

\* strings.ToLower over the characters of the model
ToLower(name) == [i \in 1..Len(name) |-> IF name[i] = "A" THEN "a" ELSE name[i]]

\* A normalisation that forgets to lowercase
normalizeFqdnKeepCase(name) == TrimSuffixDot(TrimSpace(name))

normalizeFqdn(name) == ToLower(TrimSuffixDot(TrimSpace(name)))

RawDomains == UNION {[1..n -> NameChars] : n \in 0..MaxNameLen}

InitNormalize ==
    /\ rawDomain \in RawDomains
    /\ nDomain = rawDomain
    /\ nNormalized = 0
    /\ nSeen = <<>>
    /\ npc = "start"

normIdleRest == <<checkVars, ctxVars, lookupVars, asyncVars, crashed, scanVars, httpVars, nsVars,
                  resVars, sortVars, laterVars>>

\* ctx := newScanContext(); domain = normalizeFqdn(domain)
NormalizeDomain ==
    /\ npc = "start"
    /\ nDomain' = normalizeFqdn(nDomain)
    /\ nNormalized' = nNormalized + 1
    /\ npc' = "loop"
    /\ UNCHANGED <<rawDomain, nSeen, normIdleRest>>

\* One turn of the loop: checker.Check(ctx, domain, method) with any outcome the
\* checker interface allows.
NormalizedCheckerInvoked ==
    /\ npc = "loop"
    /\ Len(nSeen) < MaxCheckers
    /\ nSeen' = Append(nSeen, nDomain)
    /\ \E o \in checkerSpy :
          npc' = IF \/ o.kind = "panic"
                    \/ o.err \notin {nil, errNotApplicable}
                    \/ (o.err = nil /\ hasFatalProblem(o.probs))
                 THEN "done" ELSE "loop"
    /\ UNCHANGED <<rawDomain, nDomain, nNormalized, normIdleRest>>

\* The registry is exhausted: return probs, nil
NormalizedCheckReturns ==
    /\ npc = "loop"
    /\ Len(nSeen) = MaxCheckers
    /\ npc' = "done"
    /\ UNCHANGED <<rawDomain, nDomain, nNormalized, nSeen, normIdleRest>>

NextNormalize ==
    \/ NormalizeDomain
    \/ NormalizedCheckerInvoked
    \/ NormalizedCheckReturns

NormalizeInit ==
    InitNormalize /\ IdleCheck /\ IdleLookup /\ IdleAsync /\ IdleScans /\ IdleHttp /\ IdleNS
                  /\ IdleRes /\ IdleSort /\ IdleLater
                  /\ rrs = <<>> /\ queryLog = <<>> /\ crashed = FALSE

SpecNormalize == NormalizeInit /\ [][NextNormalize]_vars

\* The normal form of a domain argument, stated directly: the stretch from the
\* first to the last character that is not whitespace, without one trailing dot,
\* every letter in lower case.
NormalForm(raw) ==
    LET solid == {i \in 1..Len(raw) : raw[i] \notin Whitespace}
        first == CHOOSE i \in solid : \A k \in solid : i <= k
        last == CHOOSE i \in solid : \A k \in solid : k <= i
        until == IF raw[last] = "." THEN last - 1 ELSE last
    IN  IF solid = {} THEN <<>>
        ELSE [i \in 1..(until - first + 1) |->
                 IF raw[first + i - 1] = "A" THEN "a" ELSE raw[first + i - 1]]

\* C22: Check normalises the domain argument exactly once, before the first
\* checker runs, and every checker invoked in the scan receives that one value:
\* the argument with surrounding whitespace trimmed, one trailing dot stripped,
\* in lower case.
C22_NormalizedOnce ==
    /\ nSeen # <<>> => nNormalized = 1
    /\ npc = "done" => nNormalized = 1
    /\ \A k \in 1..Len(nSeen) : nSeen[k] = NormalForm(rawDomain)

\* A scan of " A. " has reached its second checker.
C22_Witness ==
    /\ rawDomain = <<" ", "A", ".", " ">>
    /\ Len(nSeen) >= 2
    /\ nSeen[2] = <<"a">>

\* C39: normalizeFqdn is idempotent, and its result has no leading or trailing
\* whitespace, no trailing dot and no uppercase letter.
C39_NormalizeIdempotent ==
    nNormalized = 1 =>
        /\ normalizeFqdn(nDomain) = nDomain
        /\ Len(nDomain) > 0 =>
              /\ nDomain[1] \notin Whitespace
              /\ nDomain[Len(nDomain)] \notin Whitespace \cup {"."}
        /\ \A i \in 1..Len(nDomain) : nDomain[i] # "A"

(***************************************************************************)
(* scanContext.Lookup called from several goroutines (context.go)          *)
(***************************************************************************)
Callers == 1..NumCallers
\* The keys the callers ask for
LookupKeys == {<<<<"example", "org">>, "A">>, <<<<"example", "org">>, "AAAA">>,
               <<<<"www", "example", "org">>, "A">>}

\* What the resolver may answer to one query; it may answer differently each time.
ResolverAnswers(rrType) ==
    IF rrType = "A"
    THEN {lookupResult(<<RRA(PublicV4)>>, nil), lookupResult(<<>>, ServFail)}
    ELSE {lookupResult(<<RRAAAA(PublicV6)>>, nil), lookupResult(<<>>, ServFail)}

\* Lookup calls begun so far, over all callers
RECURSIVE SumCalls(_)
SumCalls(g) == IF g = 0 THEN 0 ELSE lcalls[g] + (IF lpc[g] # "idle" THEN 1 ELSE 0) + SumCalls(g - 1)
Begun == SumCalls(NumCallers)

NoReturn == [key |-> <<>>, result |-> lookupResult(<<>>, nil), hit |-> FALSE]

InitLookup ==
    /\ rrs = newScanContext
    /\ queryLog = <<>>
    /\ lpc = [g \in Callers |-> "idle"]
    /\ lkey = [g \in Callers |-> <<>>]
    /\ lres = [g \in Callers |-> lookupResult(<<>>, nil)]
    /\ lret = [g \in Callers |-> NoReturn]
    /\ lcalls = [g \in Callers |-> 0]
    /\ lseen = {}
    /\ lqueries = [k \in LookupKeys |-> 0]
    /\ crashed = FALSE

\* Lookup returns result for key to caller g
Returns(g, key, result, hit) ==
    /\ lret' = [lret EXCEPT ![g] = [key |-> key, result |-> result, hit |-> hit]]
    /\ lcalls' = [lcalls EXCEPT ![g] = @ + 1]
    /\ lseen' = lseen \cup {<<key, result>>}

\* Lines 26-36, the entry found: the first critical section, then return
LookupHit(g, name, rrType) ==
    /\ lpc[g] = "idle"
    /\ Begun < MaxLookups
    /\ Cached(EnsureMap(rrs, name), name, rrType)
    /\ rrs' = EnsureMap(rrs, name)
    /\ Returns(g, <<name, rrType>>, rrs'[name][rrType], TRUE)
    /\ UNCHANGED <<queryLog, lqueries, lpc, lkey, lres, crashed, checkVars, asyncVars, otherVars>>

\* Lines 26-33, no entry: the first critical section; the mutex is released
LookupMiss(g, name, rrType) ==
    /\ lpc[g] = "idle"
    /\ Begun < MaxLookups
    /\ ~Cached(EnsureMap(rrs, name), name, rrType)
    /\ rrs' = EnsureMap(rrs, name)
    /\ lkey' = [lkey EXCEPT ![g] = <<name, rrType>>]
    /\ lpc' = [lpc EXCEPT ![g] = "resolve"]
    /\ UNCHANGED <<queryLog, lqueries, lres, lret, lcalls, lseen, crashed, checkVars, asyncVars, otherVars>>

\* Line 39: resolved, err := lookup(name, rrType), outside the mutex
LookupResolve(g) ==
    /\ lpc[g] = "resolve"
    /\ \E r \in ResolverAnswers(lkey[g][2]) : lres' = [lres EXCEPT ![g] = r]
    /\ lqueries' = [lqueries EXCEPT ![lkey[g]] = @ + 1]
    /\ lpc' = [lpc EXCEPT ![g] = "store"]
    /\ UNCHANGED <<rrs, queryLog, lkey, lret, lcalls, lseen, crashed, checkVars, asyncVars, otherVars>>

\* Lines 41-48: the second critical section stores the result, then return
LookupStore(g) ==
    /\ lpc[g] = "store"
    /\ rrs' = StoreResult(rrs, lkey[g][1], lkey[g][2], lres[g])
    /\ Returns(g, lkey[g], lres[g], FALSE)
    /\ lpc' = [lpc EXCEPT ![g] = "idle"]
    /\ UNCHANGED <<queryLog, lqueries, lkey, lres, crashed, checkVars, asyncVars, otherVars>>

NextLookup ==
    \/ \E g \in Callers, key \in LookupKeys : LookupHit(g, key[1], key[2])
    \/ \E g \in Callers, key \in LookupKeys : LookupMiss(g, key[1], key[2])
    \/ \E g \in Callers : LookupResolve(g)
    \/ \E g \in Callers : LookupStore(g)

LookupInit == InitLookup /\ IdleCheck /\ IdleAsync /\ IdleOthers

SpecLookup == LookupInit /\ [][NextLookup]_vars

\* C2: however many goroutines call Lookup concurrently with the same (name,
\* rrType) that is not yet cached, exactly one resolver query is issued for it.
C2_OneQueryPerKey ==
    /\ \A key \in LookupKeys : lqueries[key] <= 1
    /\ \A g \in Callers : lcalls[g] > 0 => lqueries[lret[g].key] = 1

\* Some Lookup call for key has returned
KeyReturned(key) == \E e \in lseen : e[1] = key

\* C11: within one scan context, once a Lookup of a key has returned, every Lookup
\* of that key begun later returns the stored records and the stored error and
\* issues no resolver query, also when the stored outcome is a failure.
C11_CachedResultReturned ==
    [][\A g \in Callers :
          lpc[g] = "idle" =>
            /\ (lpc'[g] = "resolve" => ~KeyReturned(lkey'[g]))
            /\ (lcalls'[g] = lcalls[g] + 1 =>
                   /\ lret'[g].hit
                   /\ KeyReturned(lret'[g].key)
                   /\ lret'[g].result = rrs[lret'[g].key[1]][lret'[g].key[2]]
                   /\ lqueries' = lqueries)]_vars

\* A later Lookup was answered from the cache with a stored failure
C11_Witness ==
    \E g \in Callers :
        /\ lcalls[g] > 0
        /\ lret[g].hit
        /\ lret[g].result = lookupResult(<<>>, ServFail)
        /\ lqueries[lret[g].key] = 1

\* C33: within one scan context all Lookup calls of one (name, rrType),
\* concurrent or sequential, return the same records and error.
C33_SameResultPerKey ==
    \A e1, e2 \in lseen : e1[1] = e2[1] => e1[2] = e2[2]

(***************************************************************************)
(* Several calls of Check, one after another or at the same time: each     *)
(* allocates its scan context (letsdebug.go:22) and its checkers look      *)
(* names up through it.                                                    *)
(***************************************************************************)
Scans == 1..NumScans

\* One scanContext object shared by every call
NewContextShared(h) == IF Len(h) = 0 THEN Append(h, newScanContext) ELSE h

\* &scanContext{rrs: map...{}}: a new object on the heap, with an empty map
NewContext(h) == Append(h, newScanContext)

InitScans ==
    /\ heap = <<>>
    /\ sctx = [s \in Scans |-> 0]
    /\ scanPc = [s \in Scans |-> "start"]
    /\ nlook = [s \in Scans |-> 0]
    /\ writers = {}
    /\ hits = {}
    /\ rrs = <<>>
    /\ queryLog = <<>>
    /\ crashed = FALSE

\* ctx := newScanContext()
ScanBegins(s) ==
    /\ scanPc[s] = "start"
    /\ heap' = NewContext(heap)
    /\ sctx' = [sctx EXCEPT ![s] = Len(heap')]
    /\ scanPc' = [scanPc EXCEPT ![s] = "scanning"]
    /\ UNCHANGED <<nlook, writers, hits, checkVars, ctxVars, lookupVars, asyncVars, crashed, httpVars, nsVars, resVars, extraVars>>

\* A checker of scan s calls ctx.Lookup(name, rrType): answered by the entry of
\* the context ctx points to
ScanLookupHit(s, name, rrType) ==
    /\ scanPc[s] = "scanning"
    /\ nlook[s] < MaxScanLookups
    /\ Cached(EnsureMap(heap[sctx[s]], name), name, rrType)
    /\ heap' = [heap EXCEPT ![sctx[s]] = EnsureMap(@, name)]
    /\ hits' = hits \cup {[scan |-> s, addr |-> sctx[s], key |-> <<name, rrType>>,
                           result |-> heap[sctx[s]][name][rrType]]}
    /\ nlook' = [nlook EXCEPT ![s] = @ + 1]
    /\ UNCHANGED <<sctx, scanPc, writers, checkVars, ctxVars, lookupVars, asyncVars, crashed, httpVars, nsVars, resVars, extraVars>>

\* ... or no entry: the resolver is asked and the result stored in that context
ScanLookupMiss(s, name, rrType) ==
    /\ scanPc[s] = "scanning"
    /\ nlook[s] < MaxScanLookups
    /\ ~Cached(EnsureMap(heap[sctx[s]], name), name, rrType)
    /\ \E r \in ResolverAnswers(rrType) :
          heap' = [heap EXCEPT ![sctx[s]] = StoreResult(EnsureMap(@, name), name, rrType, r)]
    /\ writers' = writers \cup {[scan |-> s, addr |-> sctx[s], key |-> <<name, rrType>>]}
    /\ nlook' = [nlook EXCEPT ![s] = @ + 1]
    /\ UNCHANGED <<sctx, scanPc, hits, checkVars, ctxVars, lookupVars, asyncVars, crashed, httpVars, nsVars, resVars, extraVars>>

\* Check returns; ctx goes out of scope
ScanReturns(s) ==
    /\ scanPc[s] = "scanning"
    /\ scanPc' = [scanPc EXCEPT ![s] = "done"]
    /\ UNCHANGED <<heap, sctx, nlook, writers, hits, checkVars, ctxVars, lookupVars,
                   asyncVars, crashed, httpVars, nsVars, resVars, extraVars>>

NextScans ==
    \/ \E s \in Scans : ScanBegins(s)
    \/ \E s \in Scans, key \in LookupKeys : ScanLookupHit(s, key[1], key[2])
    \/ \E s \in Scans, key \in LookupKeys : ScanLookupMiss(s, key[1], key[2])
    \/ \E s \in Scans : ScanReturns(s)

ScansInit ==
    InitScans /\ IdleCheck /\ IdleLookup /\ IdleAsync /\ IdleHttp /\ IdleNS /\ IdleRes /\ IdleExtra

SpecScans == ScansInit /\ [][NextScans]_vars

\* C12: every Check call has its own scan context and cache: two scans never
\* hold the same context, a cache entry is only ever stored by the scan that
\* owns the context, and a Lookup is only ever answered from an entry the same
\* scan stored.
C12_ScanContextsIndependent ==
    /\ \A s, t \in Scans : (s # t /\ sctx[s] # 0 /\ sctx[t] # 0) => sctx[s] # sctx[t]
    /\ \A w \in writers : sctx[w.scan] = w.addr /\ \A t \in Scans \ {w.scan} : sctx[t] # w.addr
    /\ \A h \in hits : \A w \in writers :
          (w.addr = h.addr /\ w.key = h.key) => w.scan = h.scan

\* Both scans looked the same key up, one after the other scan had stored it and
\* while that scan was still running, and one was answered from its own cache.
C12_Witness ==
    \E s, t \in Scans, key \in LookupKeys :
        /\ s # t
        /\ scanPc[s] = "scanning" /\ scanPc[t] = "scanning"
        /\ [scan |-> s, addr |-> sctx[s], key |-> key] \in writers
        /\ [scan |-> t, addr |-> sctx[t], key |-> key] \in writers
        /\ \E h \in hits : h.scan = s /\ h.key = key

(***************************************************************************)
(* asyncCheckerBlock.Check and the goroutines it starts                    *)
(***************************************************************************)
AsyncKinds == {"checkerFail", "checkerSucceedEmpty", "checkerSucceedWithProblem",
               "checkerPanic"}
Blocks == UNION {[1..n -> AsyncKinds] : n \in 0..MaxSub}
Subs == 1..Len(block)

NotRun == [kind |-> "none", probs |-> <<>>, err |-> nil]

\* Channels with room for one value less
ChanCapOneLess == Len(block) - 1

\* cap(errChan) and cap(resultsChan): make(chan ..., len(c))
ChanCap == Len(block)

InitAsync ==
    /\ block \in Blocks
    /\ apc = "start"
    /\ wpc = "idle"
    /\ spc = [i \in 1..Len(block) |-> "idle"]
    /\ sout = [i \in 1..Len(block) |-> NotRun]
    /\ wg = 0
    /\ errChan = <<>>
    /\ resultsChan = <<>>
    /\ aprobs = <<>>
    /\ aerr = nil
    /\ crashed = FALSE
    /\ rrs = <<>>
    /\ queryLog = <<>>

\* Lines 312-339: wg.Add(len(c)), the channels are made, the waiting goroutine
\* and one goroutine per sub-checker are started
AsyncLaunch ==
    /\ ~crashed
    /\ apc = "start"
    /\ wg' = Len(block)
    /\ wpc' = "wait"
    /\ spc' = [i \in 1..Len(block) |-> "run"]
    /\ apc' = "select"
    /\ UNCHANGED <<block, sout, errChan, resultsChan, aprobs, aerr, crashed,
                   checkVars, ctxVars, lookupVars, otherVars>>

\* Line 321: wg.Wait() returns once the counter is zero
WaiterWakes ==
    /\ ~crashed
    /\ wpc = "wait"
    /\ wg = 0
    /\ wpc' = "send"
    /\ UNCHANGED <<block, apc, spc, sout, wg, errChan, resultsChan, aprobs, aerr, crashed,
                   checkVars, ctxVars, lookupVars, otherVars>>

\* Line 322: errChan <- nil, which blocks while the buffer is full
WaiterSends ==
    /\ ~crashed
    /\ wpc = "send"
    /\ Len(errChan) < ChanCap
    /\ errChan' = Append(errChan, nil)
    /\ wpc' = "done"
    /\ UNCHANGED <<block, apc, spc, sout, wg, resultsChan, aprobs, aerr, crashed,
                   checkVars, ctxVars, lookupVars, otherVars>>

\* Lines 332-333: chk.Check returned an error
SubReturnsError(i) ==
    /\ ~crashed
    /\ spc[i] = "run"
    /\ \E out \in StubCheck(block[i]) :
          /\ out.kind = "return"
          /\ out.err # nil
          /\ sout' = [sout EXCEPT ![i] = out]
    /\ spc' = [spc EXCEPT ![i] = "sendErr"]
    /\ UNCHANGED <<block, apc, wpc, wg, errChan, resultsChan, aprobs, aerr, crashed,
                   checkVars, ctxVars, lookupVars, otherVars>>

\* Lines 332-333: chk.Check returned a nil error
SubReturnsProblems(i) ==
    /\ ~crashed
    /\ spc[i] = "run"
    /\ \E out \in StubCheck(block[i]) :
          /\ out.kind = "return"
          /\ out.err = nil
          /\ sout' = [sout EXCEPT ![i] = out]
    /\ spc' = [spc EXCEPT ![i] = "sendRes"]
    /\ UNCHANGED <<block, apc, wpc, wg, errChan, resultsChan, aprobs, aerr, crashed,
                   checkVars, ctxVars, lookupVars, otherVars>>

\* Line 332: chk.Check panics. The goroutine's only deferred call is wg.Done,
\* nothing recovers, and the runtime terminates the process.
SubPanics(i) ==
    /\ ~crashed
    /\ spc[i] = "run"
    /\ \E out \in StubCheck(block[i]) :
          /\ out.kind = "panic"
          /\ sout' = [sout EXCEPT ![i] = out]
    /\ wg' = wg - 1
    /\ spc' = [spc EXCEPT ![i] = "panicked"]
    /\ crashed' = TRUE
    /\ UNCHANGED <<block, apc, wpc, errChan, resultsChan, aprobs, aerr,
                   checkVars, ctxVars, lookupVars, otherVars>>

\* Line 334: errChan <- err, which blocks while the buffer is full
SubSendsError(i) ==
    /\ ~crashed
    /\ spc[i] = "sendErr"
    /\ Len(errChan) < ChanCap
    /\ errChan' = Append(errChan, sout[i].err)
    /\ spc' = [spc EXCEPT ![i] = "exit"]
    /\ UNCHANGED <<block, apc, wpc, sout, wg, resultsChan, aprobs, aerr, crashed,
                   checkVars, ctxVars, lookupVars, otherVars>>

\* Line 337: resultsChan <- probs
SubSendsResult(i) ==
    /\ ~crashed
    /\ spc[i] = "sendRes"
    /\ Len(resultsChan) < ChanCap
    /\ resultsChan' = Append(resultsChan, sout[i].probs)
    /\ spc' = [spc EXCEPT ![i] = "exit"]
    /\ UNCHANGED <<block, apc, wpc, sout, wg, errChan, aprobs, aerr, crashed,
                   checkVars, ctxVars, lookupVars, otherVars>>

\* Line 331: the deferred wg.Done() as the goroutine returns
SubExits(i) ==
    /\ ~crashed
    /\ spc[i] = "exit"
    /\ wg' = wg - 1
    /\ spc' = [spc EXCEPT ![i] = "done"]
    /\ UNCHANGED <<block, apc, wpc, sout, errChan, resultsChan, aprobs, aerr, crashed,
                   checkVars, ctxVars, lookupVars, otherVars>>

\* Lines 343-348 and 355: the select receives from resultsChan; return probs, nil
AsyncSelectResult ==
    /\ ~crashed
    /\ apc = "select"
    /\ Len(resultsChan) > 0
    /\ aprobs' = (IF Len(Head(resultsChan)) > 0 THEN aprobs \o Head(resultsChan) ELSE aprobs)
    /\ resultsChan' = Tail(resultsChan)
    /\ aerr' = nil
    /\ apc' = "returned"
    /\ UNCHANGED <<block, wpc, spc, sout, wg, errChan, crashed,
                   checkVars, ctxVars, lookupVars, otherVars>>

\* Lines 350-352: the select receives from errChan; return probs, err
AsyncSelectError ==
    /\ ~crashed
    /\ apc = "select"
    /\ Len(errChan) > 0
    /\ aerr' = Head(errChan)
    /\ errChan' = Tail(errChan)
    /\ apc' = "returned"
    /\ UNCHANGED <<block, wpc, spc, sout, wg, resultsChan, aprobs, crashed,
                   checkVars, ctxVars, lookupVars, otherVars>>

\* Lines 322 and 350-352 for a block without sub-checkers: errChan has no
\* buffer, and the select receives nil from the goroutine that waited
AsyncSelectUnbuffered ==
    /\ ~crashed
    /\ apc = "select"
    /\ wpc = "send"
    /\ ChanCap = 0
    /\ aerr' = nil
    /\ wpc' = "done"
    /\ apc' = "returned"
    /\ UNCHANGED <<block, spc, sout, wg, errChan, resultsChan, aprobs, crashed,
                   checkVars, ctxVars, lookupVars, otherVars>>

NextAsync ==
    \/ AsyncLaunch
    \/ WaiterWakes
    \/ WaiterSends
    \/ \E i \in Subs : SubReturnsError(i)
    \/ \E i \in Subs : SubReturnsProblems(i)
    \/ \E i \in Subs : SubPanics(i)
    \/ \E i \in Subs : SubSendsError(i)
    \/ \E i \in Subs : SubSendsResult(i)
    \/ \E i \in Subs : SubExits(i)
    \/ AsyncSelectResult
    \/ AsyncSelectError
    \/ AsyncSelectUnbuffered

AsyncInit == InitAsync /\ IdleCheck /\ IdleLookup /\ IdleOthers

SpecAsync == AsyncInit /\ [][NextAsync]_vars

\* The scheduler runs every goroutine that can take a step
SpecAsyncFair == AsyncInit /\ [][NextAsync]_vars /\ WF_vars(NextAsync)

\* The Problems the sub-checkers of the block return, counted
RECURSIVE ProblemsOf(_)
ProblemsOf(b) ==
    IF Len(b) = 0 THEN 0
    ELSE (IF Head(b) = "checkerSucceedWithProblem" THEN 1 ELSE 0) + ProblemsOf(Tail(b))

AllSucceed(b) == \A i \in 1..Len(b) : b[i] \in {"checkerSucceedEmpty", "checkerSucceedWithProblem"}

\* C3: when no sub-checker returns an error, asyncCheckerBlock.Check returns only
\* after every sub-checker goroutine has finished, with a nil error and the merge
\* of all their Problems: two checkers with one Problem each and one with none
\* yield exactly two Problems.
C3_AsyncMergesAll ==
    (apc = "returned" /\ AllSucceed(block))
    => /\ aerr = nil
       /\ \A i \in Subs : spc[i] \in {"exit", "done"}
       /\ Len(aprobs) = ProblemsOf(block)

\* C5: a panic inside a sub-checker of the block is caught: the process is not
\* terminated and asyncCheckerBlock.Check returns a non-nil error for it.
C5_AsyncPanicCaught ==
    (\E i \in Subs : sout[i].kind = "panic")
    => /\ ~crashed
       /\ (apc = "returned" => aerr # nil)

\* C6: whenever a sub-checker has returned an error, asyncCheckerBlock.Check
\* returns a non-nil error, that of a failing sub-checker, whatever the
\* interleaving of results and errors.
C6_AsyncFirstErrorReturned ==
    (apc = "returned" /\ ~crashed
     /\ \E i \in Subs : sout[i].kind = "return" /\ sout[i].err # nil)
    => /\ aerr # nil
       /\ \E i \in Subs : sout[i].err = aerr

\* Check has returned and every goroutine it started has terminated
AsyncAllTerminated ==
    /\ apc = "returned"
    /\ wpc = "done"
    /\ \A i \in Subs : spc[i] = "done"

\* C36: asyncCheckerBlock.Check leaves no goroutine blocked: whatever the number
\* of sub-checkers and the mix of results and errors they return, Check returns
\* and every sub-checker goroutine and the waiting goroutine completes its send
\* and terminates (unless a panic ends the process).
C36_AllGoroutinesTerminate == <>(crashed \/ AsyncAllTerminated)

\* All sub-checkers of a full block and the waiting goroutine had something to
\* send on errChan, Check received one value, and all have terminated
C36_Witness ==
    /\ AsyncAllTerminated
    /\ ~crashed
    /\ Len(block) = MaxSub
    /\ \A i \in Subs : sout[i].err # nil
    /\ Len(errChan) = ChanCap

====
